---- MODULE Spec2Model ----
(***************************************************************************)
(* A model of the wonbiz-ai voice-note application: the hybrid search of   *)
(* App.tsx, the note-creation pipeline (App.tsx handleRecordingComplete,   *)
(* services/assistantService prepareAssistantNote, the server's           *)
(* /api/orchestrate analysis with its fallback tiers) and the chat page.   *)
(*                                                                         *)
(* Strings the code inspects character by character (the search query, a   *)
(* note's title, tags and summary) are sequences of one-character strings. *)
(* Texts the code only measures or tests for emptiness (a transcript, an   *)
(* LLM reply) are records carrying their length.                           *)
(***************************************************************************)
EXTENDS Integers, Sequences, FiniteSets, TLC

VARIABLES
    \* ---- App.tsx state read by the search and written by the pipeline
    notes,            \* useState<Note[]>: the in-memory note list
    \* ---- App.tsx hybrid search
    searchQuery,      \* useState(''): the text of the search box
    searchResults,    \* useState<Note[]>: the stored remote results
    isSearching,      \* useState(false)
    searchError,      \* useState<string | null>: "null" or a message
    timeout,          \* the setTimeout timers of the search effect that are pending
    inflight,         \* vectorSearchNotes calls issued and not yet returned
    searchCalls,      \* number of vectorSearchNotes calls issued
    lastSearch,       \* the query and the outcome of the request that returned last
    \* ---- note-creation pipeline (client)
    pc,               \* where handleRecordingComplete stands
    processingState,  \* useState<ProcessingState>.isProcessing
    attempt,          \* the inputs and the record of the current attempt
    env,              \* the API keys and llmConfig the processes were started with
    \* ---- /api/orchestrate handler (server)
    srv,
    \* ---- ChatPage.tsx
    sessions,         \* useState<ChatSession[]>
    currentSession,   \* useState<ChatSession | null>: NoSession stands for null
    messages,         \* useState<ChatMessage[]>
    input,            \* useState(''): the text of the input box
    isTyping,         \* useState(false)
    retrievingContext,\* useState(false)
    isLoading,        \* useState(true)
    sends,            \* the runs of handleSendMessage that have not returned
    sendCount,        \* number of runs of handleSendMessage past its guard
    saveCalls,        \* number of saveChatSession requests issued
    now,              \* Date.now()
    chatLanguage,     \* the language prop of ChatPage
    settled,          \* the run of handleSendMessage that returned last
    deletes,          \* the runs of handleDeleteSession awaiting deleteChatSession
    deleted,          \* the ids deleteChatSession has deleted
    \* ---- App.tsx and Settings.tsx: the LLM configuration
    llmConfig,        \* App useState<LLMConfig>
    view,             \* App useState<AppView>: "dashboard" or "settings"
    localConfig,      \* Settings useState<LLMConfig>(llmConfig), while mounted
    localLanguage,    \* Settings useState<AppLanguage>(language), while mounted
    \* ---- authentication and the repository reads
    storedToken,      \* localStorage wonbiz_auth_token: "none", "valid" or "expired"
    authState,        \* App useState<AuthState>
    verifying,        \* the GET /api/auth/me of the mount effect is pending
    repo,             \* the repository reads issued and not yet returned
    lastRepo,         \* what the caller of the read that returned last received
    \* ---- components/NoteDetail.tsx
    activeNote,       \* App useState<Note | null>: the prop note of NoteDetail
    currentNote,      \* the working copy NoteDetail shows
    audioBlob,        \* NoteDetail holds an audio blob (hasAudio)
    isLoadingAudio,   \* getNoteWithAudio of the mount effect is pending
    showRegenerateConfirm,
    isRegenerating,   \* regenerateNote is pending
    toast,            \* "none", "success" or "error"
    deletingNote,     \* deleteNoteFromMongo of handleDelete is pending
    \* ---- components/Recorder.tsx
    recorder,         \* the MediaRecorder, durationRef and how it was stopped
    \* ---- server.js: the database behind the notes and chat-sessions endpoints
    notesCollection,  \* the documents of the notes collection
    chatSessionsCollection, \* the documents of the chat_sessions collection
    serverNow,        \* new Date() of the server
    res               \* what the endpoint called last answered

searchVars == <<searchQuery, searchResults, isSearching, searchError, timeout,
                inflight, searchCalls, lastSearch>>
pipeVars == <<pc, processingState, attempt, env, srv>>
chatVars == <<sessions, currentSession, messages, input, isTyping, retrievingContext,
              isLoading, sends, sendCount, saveCalls, now, chatLanguage,
              settled, deletes, deleted>>
settingsVars == <<llmConfig, view, localConfig, localLanguage>>
authVars == <<storedToken, authState, verifying, repo, lastRepo>>
detailVars == <<activeNote, currentNote, audioBlob, isLoadingAudio, showRegenerateConfirm,
                isRegenerating, toast, deletingNote>>
storeVars == <<notesCollection, chatSessionsCollection, serverNow, res>>
shellVars == <<settingsVars, authVars, detailVars, recorder, storeVars>>
vars == <<notes, searchVars, pipeVars, chatVars, shellVars>>

----------------------------------------------------------------------------
(* Strings as sequences of characters.                                     *)

\* String.prototype.toLowerCase on one character of the model's alphabet.
LowerChar(c) == IF c = "A" THEN "a" ELSE IF c = "B" THEN "b" ELSE c

toLowerCase(s) == [i \in 1..Len(s) |-> LowerChar(s[i])]

\* String.prototype.includes: q occurs in s as a contiguous substring.
includes(s, q) ==
    \E i \in 0..Len(s) : i + Len(q) <= Len(s) /\ SubSeq(s, i + 1, i + Len(q)) = q

RECURSIVE trimStart(_)
trimStart(s) == IF s # <<>> /\ Head(s) = " " THEN trimStart(Tail(s)) ELSE s

RECURSIVE trimEnd(_)
trimEnd(s) ==
    IF s # <<>> /\ s[Len(s)] = " " THEN trimEnd(SubSeq(s, 1, Len(s) - 1)) ELSE s

\* String.prototype.trim
trim(s) == trimEnd(trimStart(s))

----------------------------------------------------------------------------
(* Hybrid search: App.tsx                                                  *)

\* The number of remote searches one behaviour issues.
MaxSearchCalls == 2

\* The texts typed into the search box: empty, whitespace only, and queries
\* that differ in case and in surrounding whitespace.
Queries == {<<>>, <<" ">>, <<"a">>, <<"a", "b">>, <<"B", " ">>}

NoScore == "absent"

\* Notes loaded in memory (no vectorScore) and the records the remote
\* vector search returns for them (with a vectorScore).
LocalBudget == [id |-> "1", title |-> <<"A", "b">>, tags |-> <<>>,
                summary |-> <<"b">>, vectorScore |-> NoScore]
LocalTrip   == [id |-> "2", title |-> <<"b", " ">>, tags |-> << <<"a">> >>,
                summary |-> <<>>, vectorScore |-> NoScore]
RemoteBudget == [LocalBudget EXCEPT !.vectorScore = "0.9"]
RemoteTrip   == [LocalTrip EXCEPT !.vectorScore = "0.4"]
RemoteOther  == [id |-> "3", title |-> <<"B">>, tags |-> <<>>,
                 summary |-> <<>>, vectorScore |-> "0.7"]

NoteLists == {<<>>, <<LocalBudget>>, <<LocalTrip, LocalBudget>>}
RemoteReplies == {<<>>, <<RemoteBudget>>, <<RemoteOther, RemoteBudget>>,
                  <<RemoteTrip, RemoteOther>>}

\* App.tsx localFiltered
MatchesQuery(n, q) ==
    \/ includes(toLowerCase(n.title), toLowerCase(q))
    \/ \E i \in 1..Len(n.tags) : includes(toLowerCase(n.tags[i]), toLowerCase(q))
    \/ includes(toLowerCase(n.summary), toLowerCase(q))

localFilteredOf(ns, q) ==
    IF q # <<>> THEN SelectSeq(ns, LAMBDA n : MatchesQuery(n, q)) ELSE ns

localFiltered == localFilteredOf(notes, searchQuery)

\* Map.prototype.set: an existing key keeps its position and takes the new
\* value; a new key is appended.
MapSet(m, n) ==
    IF \E i \in 1..Len(m) : m[i].id = n.id
    THEN [i \in 1..Len(m) |-> IF m[i].id = n.id THEN n ELSE m[i]]
    ELSE Append(m, n)

RECURSIVE MapSetAll(_, _)
MapSetAll(m, xs) == IF xs = <<>> THEN m ELSE MapSetAll(MapSet(m, Head(xs)), Tail(xs))

\* A mutant of the merge: the local matches are left out.
MergeRemoteOnly(remote, local) == MapSetAll(<<>>, remote)

\* [...searchResults, ...localFiltered].forEach(n => merged.set(n.id, n))
Merge(remote, local) == MapSetAll(<<>>, remote \o local)

\* App.tsx displayedNotes
displayedNotesOf(ns, q, results) ==
    IF q = <<>> THEN ns ELSE Merge(results, localFilteredOf(ns, q))

displayedNotes == displayedNotesOf(notes, searchQuery, searchResults)

\* No timer is pending.
NoTimeout == {}

\* No request has returned yet.
NoSearch == [q |-> <<>>, outcome |-> "none"]

\* services/assistantService vectorSearchNotes: what the caller receives for
\* each outcome of the request. A failure is logged and answered with [].
vectorSearchNotes(outcome, reply) ==
    CASE outcome = "ok"            -> [threw |-> FALSE, notes |-> reply]
      [] outcome = "http_error"    -> [threw |-> FALSE, notes |-> <<>>]
      [] outcome = "network_error" -> [threw |-> FALSE, notes |-> <<>>]

SearchOutcomes == {"ok", "http_error", "network_error"}

SearchInitPart ==
    /\ searchQuery = <<>>
    /\ searchResults = <<>>
    /\ isSearching = FALSE
    /\ searchError = "null"
    /\ timeout = NoTimeout
    /\ inflight = {}
    /\ searchCalls = 0
    /\ lastSearch = NoSearch

\* A mutant of the search effect: it returns no cleanup, so the timers of
\* the earlier runs stay pending.
SetSearchQueryKeepsTimers(q) ==
    /\ q # searchQuery
    /\ searchQuery' = q
    /\ IF trim(q) = <<>>
       THEN /\ searchResults' = <<>>
            /\ isSearching' = FALSE
            /\ searchError' = "null"
            /\ timeout' = timeout
       ELSE /\ isSearching' = TRUE
            /\ timeout' = timeout \cup {[q |-> q, superseding |-> timeout # {}]}
            /\ UNCHANGED <<searchResults, searchError>>
    /\ UNCHANGED <<notes, inflight, searchCalls, lastSearch, pipeVars, chatVars, shellVars>>

\* onChange of the search box, and the run of the effect on [searchQuery]
\* that follows it: the cleanup of the previous run clears its timer, then
\* a query that is not blank sets a timer of 500 ms. A timer records
\* whether it was set while another one was pending.
SetSearchQuery(q) ==
    /\ q # searchQuery
    /\ searchQuery' = q
    /\ IF trim(q) = <<>>
       THEN /\ searchResults' = <<>>
            /\ isSearching' = FALSE
            /\ searchError' = "null"
            /\ timeout' = NoTimeout
       ELSE /\ isSearching' = TRUE
            /\ timeout' = {[q |-> q, superseding |-> timeout # {}]}
            /\ UNCHANGED <<searchResults, searchError>>
    /\ UNCHANGED <<notes, inflight, searchCalls, lastSearch, pipeVars, chatVars, shellVars>>

\* A timer fires 500 ms after it was set: the callback calls
\* vectorSearchNotes(searchQuery.trim()) with the query of its closure.
TimeoutFires(t) ==
    /\ t \in timeout
    /\ searchCalls < MaxSearchCalls
    /\ inflight' = inflight \cup {[call |-> searchCalls + 1, q |-> trim(t.q),
                                   superseding |-> t.superseding]}
    /\ searchCalls' = searchCalls + 1
    /\ timeout' = timeout \ {t}
    /\ UNCHANGED <<notes, searchQuery, searchResults, isSearching, searchError,
                   lastSearch, pipeVars, chatVars, shellVars>>

\* The continuation of the callback after await vectorSearchNotes(...):
\* try { setSearchResults; setSearchError(null) } catch { ... } finally { ... }
SearchSettles(r) ==
    /\ isSearching' = FALSE
    /\ IF r.threw
       THEN /\ searchError' = "search failed"
            /\ searchResults' = <<>>
       ELSE /\ searchResults' = r.notes
            /\ searchError' = "null"

SearchReturns ==
    \E c \in inflight, outcome \in SearchOutcomes, reply \in RemoteReplies :
        /\ inflight' = inflight \ {c}
        /\ lastSearch' = [q |-> c.q, outcome |-> outcome]
        /\ SearchSettles(vectorSearchNotes(outcome, reply))
        /\ UNCHANGED <<notes, searchQuery, timeout, searchCalls, pipeVars, chatVars, shellVars>>

SearchNext ==
    \/ \E q \in Queries : SetSearchQuery(q)
    \/ \E t \in timeout : TimeoutFires(t)
    \/ SearchReturns

----------------------------------------------------------------------------
(* Texts the code measures but does not inspect: a transcript, an LLM      *)
(* reply, a title, a summary.  s names the text, len is its length.        *)

Text(s, n) == [s |-> s, len |-> n]

\* JavaScript truthiness of a string
Truthy(t) == t.len > 0

\* a || b on strings
OrElse(a, b) == IF Truthy(a) THEN a ELSE b

Min(a, b) == IF a < b THEN a ELSE b

\* t.substring(0, n) + '...'
Ellipsis(t, n) == [s |-> t.s \o "...", len |-> Min(t.len, n) + 3]

\* String.prototype.startsWith on a language code given as characters
startsWith(s, p) == Len(s) >= Len(p) /\ SubSeq(s, 1, Len(p)) = p

Languages == {"en", "zh"}
Providers == {"openai", "grok", "gemini"}

\* The literals of the code. The Chinese literals are written in pinyin.
SummaryNotAvailableEn == Text("Summary not available", 21)
SummaryNotAvailableZh == Text("zhaiyao bu keyong", 5)
NoSummaryAvailableEn  == Text("No summary available.", 21)
NoSummaryAvailableZh  == Text("zhaiyao bu keyong.", 6)
UntitledEn            == Text("Untitled Recording", 18)
UntitledZh            == Text("weimingming luyin", 5)
VoiceRecordingEn      == Text("Voice Recording", 15)
VoiceRecordingZh      == Text("yuyin jilu", 4)
DefaultTagsEn         == <<"voice", "note">>
DefaultTagsZh         == <<"yuyin", "biji">>

DefaultTags(language) == IF language = "zh" THEN DefaultTagsZh ELSE DefaultTagsEn

----------------------------------------------------------------------------
(* The analysis of the server: orchestrateWithLlamaIndex and               *)
(* orchestrateWithDirectLLM, run by the handler of POST /api/orchestrate.  *)

\* content.length above which the orchestrator path cuts a degraded summary
OrchSummaryCutAbove == 100
\* content.length above which the direct path cuts a degraded summary
DirectSummaryCutAbove == 200
\* the length a degraded summary is cut to
SummaryCutTo == 200
\* transcript.length above which the direct path titles a degraded note
\* with the head of the transcript
TitleFromTranscriptAbove == 50

\* What an LLM answers: no content, free text, or JSON (fields |-> the parsed
\* object), either of them possibly inside a fenced code block.
NoFields == [transcript |-> Text("", 0), summary |-> Text("", 0),
             title |-> Text("", 0), tagsIsArray |-> FALSE, tags |-> <<>>]
FullFields == [transcript |-> Text("cleaned", 16), summary |-> Text("llm summary", 40),
               title |-> Text("llm title", 12), tagsIsArray |-> TRUE,
               tags |-> <<"milk", "eggs">>]
ReplyNone       == [kind |-> "none", fenced |-> FALSE, len |-> 0, fields |-> NoFields]
ReplyText       == [kind |-> "text", fenced |-> FALSE, len |-> 30, fields |-> NoFields]
ReplyTextLong   == [kind |-> "text", fenced |-> TRUE, len |-> 260, fields |-> NoFields]
ReplyJson       == [kind |-> "json", fenced |-> FALSE, len |-> 90, fields |-> FullFields]
ReplyJsonSparse == [kind |-> "json", fenced |-> TRUE, len |-> 12, fields |-> NoFields]
\* the JSON text null: it parses, and reading a field of the value throws
ReplyJsonNull   == [kind |-> "null", fenced |-> FALSE, len |-> 4, fields |-> NoFields]

Replies == {ReplyNone, ReplyText, ReplyTextLong, ReplyJson,
            ReplyJsonSparse, ReplyJsonNull}

ContentOf(reply) == Text("reply", reply.len)

\* JSON.parse of the content, after the fence is stripped, returns a value
IsValidJson(reply) == reply.kind \in {"json", "null"}

\* The try block around JSON.parse and the reads of the parsed fields
\* completes without throwing
ParsedOk(reply) == reply.kind = "json"

\* orchestrateWithLlamaIndex: the result built from content that parsed
OrchParsed(reply, transcript, language) ==
    [transcript |-> OrElse(reply.fields.transcript, transcript),
     summary |-> OrElse(reply.fields.summary,
                        IF language = "zh" THEN SummaryNotAvailableZh
                        ELSE SummaryNotAvailableEn),
     title |-> OrElse(reply.fields.title,
                      IF language = "zh" THEN UntitledZh ELSE UntitledEn),
     tags |-> IF reply.fields.tagsIsArray THEN reply.fields.tags
              ELSE DefaultTags(language)]

\* orchestrateWithLlamaIndex: the catch (parseError) branch
OrchDegraded(reply, transcript, language) ==
    [transcript |-> transcript,
     summary |-> IF reply.len > OrchSummaryCutAbove
                 THEN Ellipsis(ContentOf(reply), SummaryCutTo)
                 ELSE ContentOf(reply),
     title |-> IF language = "zh" THEN VoiceRecordingZh ELSE VoiceRecordingEn,
     tags |-> DefaultTags(language)]

\* orchestrateWithDirectLLM: the result built from content that parsed
DirectParsed(reply, transcript, language) ==
    [transcript |-> OrElse(reply.fields.transcript, transcript),
     summary |-> OrElse(reply.fields.summary, SummaryNotAvailableEn),
     title |-> OrElse(reply.fields.title,
                      IF language = "zh" THEN UntitledZh ELSE UntitledEn),
     tags |-> IF reply.fields.tagsIsArray THEN reply.fields.tags
              ELSE DefaultTags(language)]

\* orchestrateWithDirectLLM: the catch (parseError) branch
DirectDegraded(reply, transcript, language) ==
    [transcript |-> transcript,
     summary |-> IF reply.len > DirectSummaryCutAbove
                 THEN Ellipsis(ContentOf(reply), SummaryCutTo)
                 ELSE ContentOf(reply),
     title |-> IF transcript.len > TitleFromTranscriptAbove
               THEN Ellipsis(transcript, TitleFromTranscriptAbove)
               ELSE IF language = "zh" THEN VoiceRecordingZh ELSE VoiceRecordingEn,
     tags |-> DefaultTags(language)]

NoResult == [transcript |-> Text("", 0), summary |-> Text("", 0),
             title |-> Text("", 0), tags |-> <<>>]

\* The default of the parameter language = 'en' of orchestrateWithDirectLLM
\* and orchestrateWithLlamaIndex, taken when the caller passes no language.
Undefined == "undefined"
LanguageOrDefault(l) == IF l = Undefined THEN "en" ELSE l

SrvIdle == [pc |-> "idle",
            req |-> [transcript |-> Text("", 0), provider |-> "openai", language |-> "en"],
            calls |-> <<>>, llama |-> "none", direct |-> <<>>,
            directLang |-> "en", inTry |-> FALSE,
            path |-> "none", content |-> ReplyNone,
            response |-> [ok |-> FALSE, status |-> "none", result |-> NoResult]]

\* path and content record which function built the result, and from which
\* LLM reply.
Built(s, path, reply) == [s EXCEPT !.path = path, !.content = reply]

Respond(s, status, result) ==
    [s EXCEPT !.pc = "replied",
              !.response = [ok |-> status = "200", status |-> status, result |-> result]]

\* orchestrateWithDirectLLM up to its fetch: the switch on the provider
\* throws when the provider's key is not configured.  A throw of a call made
\* inside the try block of orchestrateWithLlamaIndex is caught by its catch,
\* which calls orchestrateWithDirectLLM again; any other throw reaches the
\* handler, which answers 500.
RECURSIVE orchestrateWithDirectLLM(_, _, _)
DirectThrows(s) ==
    LET s1 == [s EXCEPT !.direct = Append(@, "threw")]
    IN IF s.inTry
       THEN orchestrateWithDirectLLM([s1 EXCEPT !.inTry = FALSE], s.req.language, FALSE)
       ELSE Respond(s1, "500", NoResult)

orchestrateWithDirectLLM(s, language, inTry) ==
    LET s1 == [s EXCEPT !.calls = Append(@, [to |-> "direct",
                                              language |-> LanguageOrDefault(language)]),
                        !.directLang = LanguageOrDefault(language),
                        !.inTry = inTry]
    IN IF s.req.provider \in env.providerKeys
       THEN [s1 EXCEPT !.pc = "direct"]
       ELSE DirectThrows(s1)

\* orchestrateWithLlamaIndex up to its fetch
orchestrateWithLlamaIndex(s) ==
    IF ~env.serverLlamaKey
    THEN orchestrateWithDirectLLM(s, s.req.language, FALSE)
    ELSE [s EXCEPT !.pc = "llama",
                   !.calls = Append(@, [to |-> "llama", language |-> s.req.language])]

\* A request POST /api/orchestrate reaches the server, from any client of
\* the API: the body carries a transcript, a provider and a language.
OrchestrateRequest(transcript, provider, language) ==
    /\ srv.pc \in {"idle", "replied"}
    /\ pc = "idle"
    /\ srv' = [SrvIdle EXCEPT !.pc = "received",
                              !.req = [transcript |-> transcript, provider |-> provider,
                                       language |-> language]]
    /\ UNCHANGED <<notes, searchVars, pc, processingState, attempt, env, chatVars, shellVars>>

\* app.post('/api/orchestrate'): the handler up to its first await
OrchestrateHandler ==
    /\ srv.pc = "received"
    /\ srv' = IF ~Truthy(srv.req.transcript)
              THEN Respond(srv, "400", NoResult)
              ELSE orchestrateWithLlamaIndex(srv)
    /\ UNCHANGED <<notes, searchVars, pc, processingState, attempt, env, chatVars, shellVars>>

LlmOutcomes == {"ok", "http_error", "network_error"}

\* orchestrateWithLlamaIndex after its fetch
LlamaSettles(s, outcome, reply) ==
    LET s1 == [s EXCEPT !.llama = outcome]
    IN CASE outcome = "network_error" ->
                orchestrateWithDirectLLM(s1, s.req.language, FALSE)
         [] outcome = "http_error" ->
                orchestrateWithDirectLLM(s1, Undefined, TRUE)
         [] outcome = "ok" /\ reply.kind = "none" ->
                orchestrateWithDirectLLM([s1 EXCEPT !.llama = "no_content"], Undefined, TRUE)
         [] outcome = "ok" /\ reply.kind # "none" /\ ParsedOk(reply) ->
                Respond(Built(s1, "orchestrator", reply), "200",
                        OrchParsed(reply, s.req.transcript, s.req.language))
         [] outcome = "ok" /\ reply.kind # "none" /\ ~ParsedOk(reply) ->
                Respond(Built(s1, "orchestrator", reply), "200",
                        OrchDegraded(reply, s.req.transcript, s.req.language))

LlamaReturns ==
    /\ srv.pc = "llama"
    /\ \E outcome \in LlmOutcomes, reply \in Replies :
           srv' = LlamaSettles(srv, outcome, reply)
    /\ UNCHANGED <<notes, searchVars, pc, processingState, attempt, env, chatVars, shellVars>>

\* orchestrateWithDirectLLM after its fetch
DirectSettles(s, outcome, reply) ==
    IF outcome # "ok" \/ reply.kind = "none"
    THEN DirectThrows(s)
    ELSE LET s1 == Built([s EXCEPT !.direct = Append(@, "returned")], "direct", reply)
         IN IF ParsedOk(reply)
            THEN Respond(s1, "200", DirectParsed(reply, s.req.transcript, s.directLang))
            ELSE Respond(s1, "200", DirectDegraded(reply, s.req.transcript, s.directLang))

DirectReturns ==
    /\ srv.pc = "direct"
    /\ \E outcome \in LlmOutcomes, reply \in Replies :
           srv' = DirectSettles(srv, outcome, reply)
    /\ UNCHANGED <<notes, searchVars, pc, processingState, attempt, env, chatVars, shellVars>>

----------------------------------------------------------------------------
(* The note-creation pipeline of the client: App.tsx                       *)
(* handleRecordingComplete, and prepareAssistantNote, upsertNoteToMongo    *)
(* and the request functions of services/assistantService.                 *)

\* The number of recordings one behaviour completes.
MaxAttempts == 1

\* duration < 0.1, in hundredths of a second
MinDurationCs == 10

BlobSizes == {0, 2048}
\* hundredths of a second: 0.05 s, 0.1 s
Durations == {5, 10}

\* The texts the transcription provider produces.
Transcripts == {Text("transcript", 0), Text("transcript", 17), Text("transcript", 60)}

\* app.post('/api/transcribe'): res.json({ transcript: ... }).  The body has
\* no field detectedLanguage, whatever was spoken ("" stands for a missing
\* field).
transcribeResponse(text, spoken) == [transcript |-> text, detectedLanguage |-> <<>>]

NoNote == [id |-> "", createdAt |-> 0, duration |-> 0, transcript |-> Text("", 0),
           summary |-> Text("", 0), title |-> Text("", 0), tags |-> <<>>,
           llmProvider |-> "", vectorScore |-> NoScore]

\* A note loaded from the server when the user logged in.
LoadedNote == [NoNote EXCEPT !.id = "t0", !.title = Text("loaded", 6)]

NoAttempt == [no |-> 0, size |-> 0, duration |-> 0, language |-> "en", spoken |-> "en",
              provider |-> "openai", transcript |-> Text("", 0),
              orchestrationLanguage |-> "en", analysis |-> NoResult,
              note |-> NoNote, log |-> <<>>, alert |-> "", outcome |-> "none",
              failedAt |-> "none", persisted |-> "none", notesAtStart |-> <<>>]

PipeInitPart ==
    /\ pc = "idle"
    /\ processingState = FALSE
    /\ attempt = NoAttempt
    /\ srv = SrvIdle
    /\ env \in [assemblyKey : BOOLEAN, clientLlamaKey : BOOLEAN,
                serverLlamaKey : BOOLEAN, providerKeys : {{}, Providers}]

\* A mutant of the validation: the duration is not checked.
ValidationErrorSizeOnly(size, duration) ==
    IF size = 0 THEN "Audio blob is empty" ELSE ""

\* prepareAssistantNote: the two checks before the first request
ValidationError(size, duration) ==
    IF size = 0 THEN "Audio blob is empty"
    ELSE IF duration < MinDurationCs THEN "Recording is too short"
    ELSE ""

\* A mutant of the catch of handleRecordingComplete: the error is logged
\* and no alert is raised.
FailsSilently(a, stage, message) ==
    /\ attempt' = [a EXCEPT !.outcome = "failed", !.failedAt = stage]
    /\ pc' = "idle"
    /\ processingState' = FALSE

\* handleRecordingComplete: catch { alert(...) } finally { setProcessingState }
Fails(a, stage, message) ==
    /\ attempt' = [a EXCEPT !.alert = message, !.outcome = "failed", !.failedAt = stage]
    /\ pc' = "idle"
    /\ processingState' = FALSE

Logged(a, event) == [a EXCEPT !.log = Append(@, event)]

\* handleRecordingComplete(blob, duration) up to the first request of
\* prepareAssistantNote.  The processing overlay
\* covers the page while an attempt runs.  language is the language of the
\* UI, spoken the language of the speech in the recording.
handleRecordingComplete(size, duration, language, provider, spoken) ==
    /\ pc = "idle"
    /\ ~processingState
    /\ attempt.no < MaxAttempts
    /\ LET a == [NoAttempt EXCEPT !.no = attempt.no + 1, !.size = size,
                                  !.duration = duration, !.language = language,
                                  !.provider = provider, !.spoken = spoken,
                                  !.outcome = "running",
                                  !.notesAtStart = notes]
       IN IF ValidationError(size, duration) # ""
          THEN Fails(a, "validate", ValidationError(size, duration))
          ELSE IF ~env.assemblyKey
          THEN Fails(Logged(a, "validated"), "transcribe", "Missing AssemblyAI API key")
          ELSE /\ attempt' = Logged(Logged(a, "validated"), "transcribe")
               /\ pc' = "transcribing"
               /\ processingState' = TRUE
    /\ UNCHANGED <<notes, searchVars, env, srv, chatVars>>

\* handleRecordingComplete called with a blob and a duration, on the
\* dashboard
RecordingComplete(size, duration, language, provider, spoken) ==
    /\ handleRecordingComplete(size, duration, language, provider, spoken)
    /\ UNCHANGED shellVars

\* const orchestrationLanguage = detectedLanguage.startsWith('zh') ? 'zh' : 'en'
OrchestrationLanguage(detectedLanguage) ==
    IF startsWith(detectedLanguage, <<"z", "h">>) THEN "zh" ELSE "en"

\* transcribeWithAssemblyAI returns: data.detectedLanguage || 'en'
DetectedOrDefault(detected) == IF detected = <<>> THEN <<"e", "n">> ELSE detected

RequestOutcomes == {"ok", "http_error", "network_error"}

\* prepareAssistantNote from the return of transcribeWithAssemblyAI to the
\* request of runLlamaIndexOrchestration
TranscribeReturns(outcome, transcript) ==
    /\ pc = "transcribing"
    /\ IF outcome # "ok"
       THEN /\ Fails(attempt, "transcribe", "Transcription failed")
            /\ srv' = srv
       ELSE LET data == transcribeResponse(transcript, attempt.spoken)
                a == [Logged(attempt, "transcribed") EXCEPT
                         !.transcript = data.transcript,
                         !.orchestrationLanguage =
                             OrchestrationLanguage(DetectedOrDefault(data.detectedLanguage))]
            IN IF ~env.clientLlamaKey
               THEN /\ Fails(a, "analyze", "Missing LlamaIndex (LlamaCloud) API key")
                    /\ srv' = srv
               ELSE /\ attempt' = Logged(a, "orchestrate")
                    /\ pc' = "orchestrating"
                    /\ processingState' = TRUE
                    /\ srv' = [SrvIdle EXCEPT
                                  !.pc = "received",
                                  !.req = [transcript |-> transcript,
                                           provider |-> attempt.provider,
                                           language |-> a.orchestrationLanguage]]
    /\ UNCHANGED <<notes, searchVars, env, chatVars, shellVars>>

\* prepareAssistantNote from the return of runLlamaIndexOrchestration to the
\* request of embedTranscript
OrchestrateReturns(outcome) ==
    /\ pc = "orchestrating"
    /\ srv.pc = "replied"
    /\ IF outcome # "ok" \/ ~srv.response.ok
       THEN Fails(attempt, "analyze", "Orchestration failed")
       ELSE /\ attempt' = Logged([Logged(attempt, "analyzed") EXCEPT
                                     !.analysis = srv.response.result], "embed")
            /\ pc' = "embedding"
            /\ processingState' = TRUE
    /\ srv' = SrvIdle
    /\ UNCHANGED <<notes, searchVars, env, chatVars, shellVars>>

\* prepareAssistantNote: const note: Note = { ... }
BuildNote(a) ==
    [id |-> "t" \o ToString(a.no),
     createdAt |-> a.no,
     duration |-> a.duration,
     transcript |-> OrElse(a.analysis.transcript, a.transcript),
     summary |-> OrElse(a.analysis.summary,
                        IF a.orchestrationLanguage = "zh" THEN NoSummaryAvailableZh
                        ELSE NoSummaryAvailableEn),
     title |-> OrElse(a.analysis.title,
                      IF a.orchestrationLanguage = "zh" THEN UntitledZh ELSE UntitledEn),
     tags |-> a.analysis.tags,
     llmProvider |-> a.provider,
     vectorScore |-> NoScore]

\* A mutant of handleRecordingComplete: the note is shown before it is
\* written (setNotes before await upsertNoteToMongo).
EmbedReturnsAddsNoteFirst(outcome) ==
    /\ pc = "embedding"
    /\ IF outcome # "ok"
       THEN /\ Fails(attempt, "embed", "Embedding generation failed")
            /\ notes' = notes
       ELSE /\ attempt' = Logged([Logged(attempt, "embedded") EXCEPT
                                     !.note = BuildNote(attempt)], "persist")
            /\ notes' = <<BuildNote(attempt)>> \o notes
            /\ pc' = "persisting"
            /\ processingState' = TRUE
    /\ UNCHANGED <<searchVars, env, srv, chatVars, shellVars>>

\* prepareAssistantNote from the return of embedTranscript to its own
\* return, and handleRecordingComplete up to the request of upsertNoteToMongo
EmbedReturns(outcome) ==
    /\ pc = "embedding"
    /\ IF outcome # "ok"
       THEN Fails(attempt, "embed", "Embedding generation failed")
       ELSE /\ attempt' = Logged([Logged(attempt, "embedded") EXCEPT
                                     !.note = BuildNote(attempt)], "persist")
            /\ pc' = "persisting"
            /\ processingState' = TRUE
    /\ UNCHANGED <<notes, searchVars, env, srv, chatVars, shellVars>>

\* A mutant of upsertNoteToMongo: a failed write is thrown to the caller.
upsertNoteToMongoRethrows(outcome) == [threw |-> outcome # "ok"]

\* upsertNoteToMongo: a response that is not ok and a thrown error are both
\* logged with console.warn, and the function returns normally.
upsertNoteToMongo(outcome) == [threw |-> FALSE]

\* handleRecordingComplete after await upsertNoteToMongo(note, embedding):
\* setNotes(prev => [note, ...prev]), then finally
PersistReturns(outcome) ==
    /\ pc = "persisting"
    /\ IF upsertNoteToMongo(outcome).threw
       THEN /\ Fails([attempt EXCEPT !.persisted = outcome], "persist", "upsert failed")
            /\ notes' = notes
       ELSE /\ notes' = <<attempt.note>> \o notes
            /\ attempt' = [Logged(Logged(attempt, "persist returned"), "note added")
                              EXCEPT !.outcome = "created", !.persisted = outcome]
            /\ pc' = "idle"
            /\ processingState' = FALSE
    /\ UNCHANGED <<searchVars, env, srv, chatVars, shellVars>>

PipeNext ==
    \/ \E size \in BlobSizes, duration \in Durations, language \in Languages,
          provider \in Providers, spoken \in Languages :
          RecordingComplete(size, duration, language, provider, spoken)
    \/ \E outcome \in RequestOutcomes, transcript \in Transcripts :
          TranscribeReturns(outcome, transcript)
    \/ OrchestrateHandler
    \/ LlamaReturns
    \/ DirectReturns
    \/ \E outcome \in RequestOutcomes : OrchestrateReturns(outcome)
    \/ \E outcome \in RequestOutcomes : EmbedReturns(outcome)
    \/ \E outcome \in RequestOutcomes : PersistReturns(outcome)

----------------------------------------------------------------------------
(* The chat page: components/ChatPage.tsx                                  *)

\* The number of messages one behaviour sends.
MaxSends == 2
\* The number of handlers that read Date.now() in one behaviour.
MaxClock == 5
\* The number of sessions one behaviour deletes.
MaxDeletes == 1

\* generateTitle: the number of words kept, and the length a title is cut to
TitleWords == 6
TitleMaxLen == 40

\* text.split(' ')
RECURSIVE split(_)
split(s) ==
    IF \A i \in 1..Len(s) : s[i] # " " THEN <<s>>
    ELSE LET k == CHOOSE i \in 1..Len(s) : s[i] = " " /\ \A j \in 1..(i - 1) : s[j] # " "
         IN <<SubSeq(s, 1, k - 1)>> \o split(SubSeq(s, k + 1, Len(s)))

\* words.join(' ')
RECURSIVE join(_)
join(ws) ==
    IF ws = <<>> THEN <<>>
    ELSE IF Len(ws) = 1 THEN ws[1]
    ELSE ws[1] \o <<" ">> \o join(Tail(ws))

\* ChatPage generateTitle
generateTitle(text) ==
    LET parts == split(text)
        words == join(SubSeq(parts, 1, Min(Len(parts), TitleWords)))
    IN IF Len(words) > TitleMaxLen
       THEN SubSeq(words, 1, TitleMaxLen) \o <<".", ".", ".">>
       ELSE words

\* i18n[language].newChat: 'New Chat', and the four characters of the
\* Chinese title, in pinyin
NewChatEn == <<"N", "e", "w", " ", "C", "h", "a", "t">>
NewChatZh == <<"xin", "jian", "dui", "hua">>
newChat(language) == IF language = "zh" THEN NewChatZh ELSE NewChatEn

NoSession == [id |-> "", title |-> <<>>, messages |-> <<>>, createdAt |-> 0, updatedAt |-> 0]

\* The texts typed into the input box: empty, blank, a short message, and
\* six words of seven letters (47 characters when joined).
Letters(n) == [i \in 1..n |-> "a"]
SixLongWords == join([i \in 1..6 |-> Letters(7)])
ChatTexts == {<<>>, <<" ">>, <<"h", "i">>, SixLongWords}

\* What POST /api/chat answers in data.response
ChatResponses == {<<>>, <<"o", "k">>}

CouldNotGenerateEn == <<"I", " ", "c", "o", "u", "l", "d", "n", "'", "t">>
CouldNotGenerateZh == <<"wo", "wu", "fa", "sheng", "cheng", "hui", "fu">>
CouldNotGenerate(language) ==
    IF language = "zh" THEN CouldNotGenerateZh ELSE CouldNotGenerateEn
SorryErrorEn == <<"S", "o", "r", "r", "y">>
SorryErrorZh == <<"bao", "qian">>
SorryError(language) == IF language = "zh" THEN SorryErrorZh ELSE SorryErrorEn

\* Sessions stored on the server when the page is mounted, as
\* GET /api/chat-sessions returns them: sorted by updatedAt, newest first.
StoredOld == [id |-> "s1", title |-> <<"o", "l", "d">>, createdAt |-> 0, updatedAt |-> 0,
              messages |-> <<[id |-> "m1", role |-> "user", text |-> <<"o", "l", "d">>,
                              timestamp |-> 0],
                             [id |-> "m2", role |-> "model", text |-> <<"o", "k">>,
                              timestamp |-> 0]>>]
StoredSessionLists == {<<>>, <<StoredOld>>}

\* Array.prototype.sort((a, b) => b.updatedAt - a.updatedAt): stable
RECURSIVE insertByUpdatedAt(_, _)
insertByUpdatedAt(sorted, x) ==
    IF sorted = <<>> THEN <<x>>
    ELSE IF Head(sorted).updatedAt >= x.updatedAt
    THEN <<Head(sorted)>> \o insertByUpdatedAt(Tail(sorted), x)
    ELSE <<x>> \o sorted

RECURSIVE sortByUpdatedAt(_)
sortByUpdatedAt(xs) ==
    IF xs = <<>> THEN <<>>
    ELSE insertByUpdatedAt(sortByUpdatedAt(SubSeq(xs, 1, Len(xs) - 1)), xs[Len(xs)])

\* The effect on [messages]: the session it saves ...
updatedSession(cur, msgs, t) ==
    [cur EXCEPT !.messages = msgs,
                !.updatedAt = t,
                !.title = IF cur.title = NewChatEn /\ Len(msgs) > 0
                          THEN generateTitle(msgs[1].text)
                          ELSE cur.title]

\* A mutant of the effect: the list is not sorted after the replacement.
updatedSessionsUnsorted(prev, u) ==
    IF \E i \in 1..Len(prev) : prev[i].id = u.id
    THEN [i \in 1..Len(prev) |-> IF prev[i].id = u.id THEN u ELSE prev[i]]
    ELSE <<u>> \o prev

\* ... and the session list it sets
updatedSessions(prev, u) ==
    IF \E i \in 1..Len(prev) : prev[i].id = u.id
    THEN sortByUpdatedAt([i \in 1..Len(prev) |-> IF prev[i].id = u.id THEN u ELSE prev[i]])
    ELSE <<u>> \o prev

\* The render that follows setSessions(base), setCurrentSession(cur) and
\* setMessages(msgs), and the run of the effect on [messages] after it. The
\* effect runs when the messages changed; it saves when there is a current
\* session and a message.
MessagesSetOn(base, cur, msgs) ==
    /\ messages' = msgs
    /\ IF msgs # messages /\ cur # NoSession /\ Len(msgs) > 0
       THEN /\ currentSession' = updatedSession(cur, msgs, now)
            /\ sessions' = updatedSessions(base, updatedSession(cur, msgs, now))
            /\ saveCalls' = saveCalls + 1
       ELSE /\ currentSession' = cur
            /\ sessions' = base
            /\ saveCalls' = saveCalls

MessagesSet(cur, msgs) == MessagesSetOn(sessions, cur, msgs)

\* No run of handleSendMessage has returned yet.
NoneSettled == [no |-> 0, failed |-> FALSE]

ChatInitPart ==
    /\ sessions = <<>>
    /\ currentSession = NoSession
    /\ messages = <<>>
    /\ input = <<>>
    /\ isTyping = FALSE
    /\ retrievingContext = FALSE
    /\ isLoading = TRUE
    /\ sends = {}
    /\ sendCount = 0
    /\ saveCalls = 0
    /\ now = 1
    /\ chatLanguage \in Languages
    /\ settled = NoneSettled
    /\ deletes = {}
    /\ deleted = {}

\* The requests whose continuation will read Date.now(): a handler that
\* reads the clock starts only while the clock has room for them.
Pending == Cardinality(sends) + Cardinality(deletes)

\* loadChatSessions after Promise.all: getAllChatSessions answers [] and
\* getLatestChatSession answers null when their request fails.
loadChatSessions(all, latest) ==
    /\ isLoading
    /\ now + Pending < MaxClock
    /\ now' = now + 1
    /\ isLoading' = FALSE
    /\ IF latest # NoSession /\ Len(latest.messages) > 0
       THEN MessagesSetOn(all, latest, latest.messages)
       ELSE /\ sessions' = all
            /\ UNCHANGED <<messages, currentSession, saveCalls>>
    /\ UNCHANGED <<input, isTyping, retrievingContext, sends, sendCount, chatLanguage,
                   settled, deletes, deleted>>

\* loadChatSessions on the chat page, whatever the two reads answered
LoadChatSessionsReturns(all, latest) ==
    /\ loadChatSessions(all, latest)
    /\ UNCHANGED <<notes, searchVars, pipeVars, shellVars>>

\* onChange of the input box
SetInput(text) ==
    /\ text # input
    /\ input' = text
    /\ UNCHANGED <<sessions, currentSession, messages, isTyping, retrievingContext,
                   isLoading, sends, sendCount, saveCalls, now, chatLanguage,
                   settled, deletes, deleted>>
    /\ UNCHANGED <<notes, searchVars, pipeVars, shellVars>>

\* A mutant of the guard of handleSendMessage: isTyping is not consulted.
SendAcceptedIgnoringTyping == trim(input) # <<>>

\* handleSendMessage: if (!input.trim() || isTyping) return
SendAccepted == trim(input) # <<>> /\ ~isTyping

\* handleSendMessage up to await vectorSearchNotes(userMsg.text)
SendMessage ==
    /\ SendAccepted
    /\ sendCount < MaxSends
    /\ now + Pending + 1 < MaxClock
    /\ now' = now + 1
    /\ LET cur == IF currentSession = NoSession
                  THEN [id |-> ToString(now), title |-> newChat(chatLanguage),
                        messages |-> <<>>, createdAt |-> now, updatedAt |-> now]
                  ELSE currentSession
           userMsg == [id |-> ToString(now), role |-> "user", text |-> input,
                       timestamp |-> now]
       IN MessagesSet(cur, Append(messages, userMsg))
    /\ input' = <<>>
    /\ isTyping' = TRUE
    /\ retrievingContext' = TRUE
    /\ sends' = sends \cup {[no |-> sendCount + 1, stage |-> "retrieving", text |-> input,
                               session |-> IF currentSession = NoSession
                                           THEN ToString(now) ELSE currentSession.id]}
    /\ sendCount' = sendCount + 1
    /\ UNCHANGED <<isLoading, chatLanguage, settled, deletes, deleted>>
    /\ UNCHANGED <<notes, searchVars, pipeVars, shellVars>>

\* handleSendMessage from the return of vectorSearchNotes, which answers []
\* when its request fails, to await chatWithNotes(...)
ContextReturns(s) ==
    /\ s \in sends
    /\ s.stage = "retrieving"
    /\ retrievingContext' = FALSE
    /\ sends' = (sends \ {s}) \cup {[s EXCEPT !.stage = "generating"]}
    /\ UNCHANGED <<sessions, currentSession, messages, input, isTyping, isLoading,
                   sendCount, saveCalls, now, chatLanguage, settled, deletes, deleted>>
    /\ UNCHANGED <<notes, searchVars, pipeVars, shellVars>>

\* A mutant of handleSendMessage: no catch and no finally, so that a failed
\* chatWithNotes ends the run with nothing appended and isTyping still set.
ChatReturnsWithoutCatch(s, outcome, response) ==
    /\ s \in sends
    /\ s.stage = "generating"
    /\ now' = now + 1
    /\ IF outcome # "ok"
       THEN UNCHANGED <<messages, currentSession, sessions, saveCalls, isTyping>>
       ELSE /\ MessagesSet(currentSession,
                           Append(messages, [id |-> ToString(now + 1), role |-> "model",
                                             text |-> IF response # <<>> THEN response
                                                      ELSE CouldNotGenerate(chatLanguage),
                                             timestamp |-> now]))
            /\ isTyping' = FALSE
    /\ retrievingContext' = FALSE
    /\ sends' = sends \ {s}
    /\ settled' = [no |-> s.no, failed |-> outcome # "ok"]
    /\ UNCHANGED <<input, isLoading, sendCount, chatLanguage, deletes, deleted>>
    /\ UNCHANGED <<notes, searchVars, pipeVars, shellVars>>

\* handleSendMessage from the return of chatWithNotes to its end: the reply
\* or, in the catch, the error message is appended; finally setIsTyping(false)
ChatReturns(s, outcome, response) ==
    /\ s \in sends
    /\ s.stage = "generating"
    /\ now' = now + 1
    /\ LET text == IF outcome # "ok"
                   THEN SorryError(chatLanguage)
                   ELSE IF response # <<>> THEN response
                        ELSE CouldNotGenerate(chatLanguage)
           reply == [id |-> ToString(now + 1), role |-> "model", text |-> text,
                     timestamp |-> now]
       IN MessagesSet(currentSession, Append(messages, reply))
    /\ retrievingContext' = FALSE
    /\ isTyping' = FALSE
    /\ sends' = sends \ {s}
    /\ settled' = [no |-> s.no, failed |-> outcome # "ok"]
    /\ UNCHANGED <<input, isLoading, sendCount, chatLanguage, deletes, deleted>>
    /\ UNCHANGED <<notes, searchVars, pipeVars, shellVars>>

\* createNewSession: the draft it makes current
NewSession(t, language) ==
    [id |-> ToString(t), title |-> newChat(language), messages |-> <<>>,
     createdAt |-> t, updatedAt |-> t]

CreateNewSession ==
    /\ now + Pending < MaxClock
    /\ now' = now + 1
    /\ MessagesSet(NewSession(now, chatLanguage), <<>>)
    /\ UNCHANGED <<input, isTyping, retrievingContext, isLoading, sends, sendCount,
                   chatLanguage, settled, deletes, deleted>>
    /\ UNCHANGED <<notes, searchVars, pipeVars, shellVars>>

\* selectSession(session), from the click on a row of the session list
SelectSession(i) ==
    /\ i \in 1..Len(sessions)
    /\ now + Pending < MaxClock
    /\ now' = now + 1
    /\ MessagesSet(sessions[i], sessions[i].messages)
    /\ UNCHANGED <<input, isTyping, retrievingContext, isLoading, sends, sendCount,
                   chatLanguage, settled, deletes, deleted>>
    /\ UNCHANGED <<notes, searchVars, pipeVars, shellVars>>

\* prev.filter(s => s.id !== sessionId)
withoutSession(list, id) == SelectSeq(list, LAMBDA x : x.id # id)

\* handleDeleteSession up to await deleteChatSession(sessionId): the click on
\* the delete button of a row. The continuation keeps the currentSession
\* and the sessions of the render the handler was created in.
DeleteSessionClick(i) ==
    /\ i \in 1..Len(sessions)
    /\ sessions[i].id \notin deleted
    /\ \A d \in deletes : d.id # sessions[i].id
    /\ Cardinality(deleted) + Cardinality(deletes) < MaxDeletes
    /\ now + Pending < MaxClock
    /\ deletes' = deletes \cup {[id |-> sessions[i].id,
                                 currentSession |-> currentSession,
                                 sessions |-> sessions]}
    /\ UNCHANGED <<sessions, currentSession, messages, input, isTyping,
                   retrievingContext, isLoading, sends, sendCount, saveCalls, now,
                   chatLanguage, settled, deleted>>
    /\ UNCHANGED <<notes, searchVars, pipeVars, shellVars>>

\* deleteChatSession: response.ok, and false when the request throws
deleteChatSession(outcome) == outcome = "ok"

\* handleDeleteSession after await deleteChatSession(sessionId)
DeleteSessionReturns(d, outcome) ==
    /\ d \in deletes
    /\ deletes' = deletes \ {d}
    /\ now' = now + 1
    /\ IF deleteChatSession(outcome)
       THEN /\ deleted' = deleted \cup {d.id}
            /\ IF d.currentSession.id = d.id
               THEN LET remaining == withoutSession(d.sessions, d.id)
                    IN IF Len(remaining) > 0
                       THEN MessagesSetOn(withoutSession(sessions, d.id),
                                          remaining[1], remaining[1].messages)
                       ELSE MessagesSetOn(withoutSession(sessions, d.id),
                                          NewSession(now, chatLanguage), <<>>)
               ELSE /\ sessions' = withoutSession(sessions, d.id)
                    /\ UNCHANGED <<currentSession, messages, saveCalls>>
       ELSE UNCHANGED <<deleted, sessions, currentSession, messages, saveCalls>>
    /\ UNCHANGED <<input, isTyping, retrievingContext, isLoading, sends, sendCount,
                   chatLanguage, settled>>
    /\ UNCHANGED <<notes, searchVars, pipeVars, shellVars>>

ChatNext ==
    \/ \E all \in StoredSessionLists, latest \in {NoSession, StoredOld} :
          LoadChatSessionsReturns(all, latest)
    \/ \E text \in ChatTexts : SetInput(text)
    \/ SendMessage
    \/ \E s \in sends : ContextReturns(s)
    \/ \E s \in sends, outcome \in RequestOutcomes, response \in ChatResponses :
          ChatReturns(s, outcome, response)
    \/ CreateNewSession
    \/ \E i \in 1..MaxSends + 1 : SelectSession(i)
    \/ \E i \in 1..MaxSends + 1 : DeleteSessionClick(i)
    \/ \E d \in deletes, outcome \in RequestOutcomes : DeleteSessionReturns(d, outcome)

----------------------------------------------------------------------------
(* App.tsx and components/Settings.tsx: the LLM configuration              *)

\* llmOptions of services/mongoService
llmOptions ==
    [p \in Providers |->
        CASE p = "openai" -> <<"openai-oss", "openai-oss-mini">>
          [] p = "grok"   -> <<"grok-4.1-fast", "grok-4.1", "grok-4.1-mini">>
          [] p = "gemini" -> <<"gemini-2.5-flash", "gemini-1.5-pro", "gemini-1.5-flash">>]

ModelsOf(p) == {llmOptions[p][i] : i \in 1..Len(llmOptions[p])}

\* useState<LLMConfig>({ provider: 'openai', model: 'gpt-4o-mini' })
InitialLlmConfig == [provider |-> "openai", model |-> "gpt-4o-mini"]

SettingsInitPart ==
    /\ llmConfig = InitialLlmConfig
    /\ view = "dashboard"
    /\ localConfig = InitialLlmConfig
    /\ localLanguage = "en"

\* The settings button of the sidebar: Settings is mounted and its local
\* state is initialised from the props.
OpenSettings ==
    /\ view = "dashboard"
    /\ view' = "settings"
    /\ localConfig' = llmConfig
    /\ localLanguage' = chatLanguage
    /\ UNCHANGED <<llmConfig, authVars, detailVars>>
    /\ UNCHANGED <<notes, searchVars, pipeVars, chatVars>>
    /\ UNCHANGED <<recorder, storeVars>>

\* handleProviderChange
handleProviderChange(provider) ==
    /\ view = "settings"
    /\ localConfig' = [provider |-> provider, model |-> llmOptions[provider][1]]
    /\ UNCHANGED <<llmConfig, view, localLanguage, authVars, detailVars>>
    /\ UNCHANGED <<notes, searchVars, pipeVars, chatVars>>
    /\ UNCHANGED <<recorder, storeVars>>

\* handleModelChange, called by the select whose options are the models of
\* the provider of the local configuration
handleModelChange(model) ==
    /\ view = "settings"
    /\ model \in ModelsOf(localConfig.provider)
    /\ localConfig' = [localConfig EXCEPT !.model = model]
    /\ UNCHANGED <<llmConfig, view, localLanguage, authVars, detailVars>>
    /\ UNCHANGED <<notes, searchVars, pipeVars, chatVars>>
    /\ UNCHANGED <<recorder, storeVars>>

\* The two language buttons of Settings
SetLocalLanguage(l) ==
    /\ view = "settings"
    /\ l # localLanguage
    /\ localLanguage' = l
    /\ UNCHANGED <<llmConfig, view, localConfig, authVars, detailVars>>
    /\ UNCHANGED <<notes, searchVars, pipeVars>>
    /\ UNCHANGED chatVars
    /\ UNCHANGED <<recorder, storeVars>>

\* handleSave: onConfigChange(localConfig); onLanguageChange(localLanguage); onBack()
handleSave ==
    /\ view = "settings"
    /\ llmConfig' = localConfig
    /\ chatLanguage' = localLanguage
    /\ view' = "dashboard"
    /\ UNCHANGED <<localConfig, localLanguage, authVars, detailVars>>
    /\ UNCHANGED <<sessions, currentSession, messages, input, isTyping, retrievingContext,
                   isLoading, sends, sendCount, saveCalls, now, settled, deletes, deleted>>
    /\ UNCHANGED <<notes, searchVars, pipeVars>>
    /\ UNCHANGED <<recorder, storeVars>>

\* The back button of Settings: onBack() without saving
SettingsBack ==
    /\ view = "settings"
    /\ view' = "dashboard"
    /\ UNCHANGED <<llmConfig, localConfig, localLanguage, authVars, detailVars, storeVars>>
    /\ UNCHANGED <<notes, searchVars, pipeVars, chatVars>>
    /\ UNCHANGED <<recorder, storeVars>>

SettingsNext ==
    \/ OpenSettings
    \/ \E provider \in Providers : handleProviderChange(provider)
    \/ \E model \in UNION {ModelsOf(p) : p \in Providers} : handleModelChange(model)
    \/ \E l \in Languages : SetLocalLanguage(l)
    \/ handleSave
    \/ SettingsBack

----------------------------------------------------------------------------
(* Authentication and the repository reads                                 *)

Tokens == {"none", "valid", "expired"}
NoAuth == [isAuthenticated |-> FALSE, token |-> "none"]
ServerOutcomes == {"ok", "db_down", "error", "network_error"}
NoRead == [op |-> "none", status |-> 0, threw |-> FALSE, empty |-> FALSE]

\* authenticateToken of the server: the status it answers with, 0 for next()
authenticateToken(bearer) ==
    CASE bearer = "none"    -> 401
      [] bearer = "expired" -> 403
      [] OTHER              -> 0

\* A protected GET handler of the server: authenticateToken, then 503 when
\* the collection is missing, 500 when the query throws, else the body.
\* Status 0 stands for a request that fetch rejects.
ProtectedGet(bearer, outcome, body, nothing) ==
    IF outcome = "network_error" THEN [status |-> 0, body |-> nothing]
    ELSE IF authenticateToken(bearer) # 0
         THEN [status |-> authenticateToken(bearer), body |-> nothing]
    ELSE IF outcome = "db_down" THEN [status |-> 503, body |-> nothing]
    ELSE IF outcome = "error" THEN [status |-> 500, body |-> nothing]
    ELSE [status |-> 200, body |-> body]

\* response.ok
ok(response) == response.status \in 200..299

\* getAllNotesFromMongo: what its caller receives
getAllNotesFromMongo(response) ==
    [threw |-> FALSE, value |-> IF ok(response) THEN response.body ELSE <<>>]

\* getAllChatSessions: what its caller receives
getAllChatSessions(response) ==
    [threw |-> FALSE, value |-> IF ok(response) THEN response.body ELSE <<>>]

\* getLatestChatSession: what its caller receives
getLatestChatSession(response) ==
    [threw |-> FALSE, value |-> IF ok(response) THEN response.body ELSE NoSession]

AuthInitPart ==
    /\ storedToken \in Tokens
    /\ authState = IF storedToken = "none" THEN NoAuth
                   ELSE [isAuthenticated |-> TRUE, token |-> storedToken]
    /\ verifying = (storedToken # "none")
    /\ repo = IF storedToken = "none" THEN {}
              ELSE {[op |-> "notes", bearer |-> storedToken]}
    /\ lastRepo = NoRead

\* The answer to the GET /api/auth/me of the mount effect: a response that
\* is not ok logs out, a rejected fetch keeps the cached authentication.
VerifyReturns(outcome) ==
    /\ verifying
    /\ verifying' = FALSE
    /\ LET response == ProtectedGet(authState.token, outcome, <<>>, <<>>)
       IN IF response.status # 0 /\ ~ok(response)
          THEN storedToken' = "none" /\ authState' = NoAuth
          ELSE UNCHANGED <<storedToken, authState>>
    /\ UNCHANGED <<repo, lastRepo, settingsVars, detailVars>>
    /\ UNCHANGED <<notes, searchVars, pipeVars, chatVars>>
    /\ UNCHANGED <<recorder, storeVars>>

\* handleLogin, and the effect on authState that loads the notes
handleLogin ==
    /\ ~authState.isAuthenticated
    /\ storedToken' = "valid"
    /\ authState' = [isAuthenticated |-> TRUE, token |-> "valid"]
    /\ repo' = repo \cup {[op |-> "notes", bearer |-> "valid"]}
    /\ UNCHANGED <<verifying, lastRepo, settingsVars, detailVars>>
    /\ UNCHANGED <<notes, searchVars, pipeVars, chatVars>>
    /\ UNCHANGED <<recorder, storeVars>>

\* handleLogout
handleLogout ==
    /\ authState.isAuthenticated
    /\ storedToken' = "none"
    /\ authState' = NoAuth
    /\ notes' = <<>>
    /\ view' = "dashboard"
    /\ UNCHANGED <<verifying, repo, lastRepo, llmConfig, localConfig, localLanguage>>
    /\ activeNote' = NoNote
    /\ UNCHANGED <<currentNote, audioBlob, isLoadingAudio, showRegenerateConfirm,
                   isRegenerating, toast, deletingNote>>
    /\ UNCHANGED <<searchVars, pipeVars, chatVars>>
    /\ UNCHANGED <<recorder, storeVars>>

\* The token leaves localStorage while this App stays mounted: handleLogout
\* of the same App in another tab of the browser.
LogoutElsewhere ==
    /\ storedToken # "none"
    /\ storedToken' = "none"
    /\ UNCHANGED <<authState, verifying, repo, lastRepo, settingsVars, detailVars>>
    /\ UNCHANGED <<notes, searchVars, pipeVars, chatVars>>
    /\ UNCHANGED <<recorder, storeVars>>

\* The lifetime of the token stored in localStorage ends.
TokenExpires ==
    /\ storedToken = "valid"
    /\ storedToken' = "expired"
    /\ UNCHANGED <<authState, verifying, repo, lastRepo, settingsVars, detailVars>>
    /\ UNCHANGED <<notes, searchVars, pipeVars, chatVars>>
    /\ UNCHANGED <<recorder, storeVars>>

\* reloadNotes up to await getAllNotesFromMongo(): getAuthHeaders reads the
\* token of localStorage when the request is made.
ReloadNotes ==
    /\ authState.isAuthenticated
    /\ repo' = repo \cup {[op |-> "notes", bearer |-> storedToken]}
    /\ UNCHANGED <<storedToken, authState, verifying, lastRepo, settingsVars, detailVars>>
    /\ UNCHANGED <<notes, searchVars, pipeVars, chatVars>>
    /\ UNCHANGED <<recorder, storeVars>>

\* The mount of ChatPage: loadChatSessions up to await Promise.all
OpenChat ==
    /\ authState.isAuthenticated
    /\ isLoading
    /\ \A c \in repo : c.op # "chat-sessions"
    /\ repo' = repo \cup {[op |-> "chat-sessions", bearer |-> storedToken]}
    /\ UNCHANGED <<storedToken, authState, verifying, lastRepo, settingsVars, detailVars>>
    /\ UNCHANGED <<notes, searchVars, pipeVars, chatVars>>
    /\ UNCHANGED <<recorder, storeVars>>

\* loadNotes and reloadNotes from the return of getAllNotesFromMongo
NotesReturn(c, outcome, stored) ==
    /\ c \in repo
    /\ c.op = "notes"
    /\ repo' = repo \ {c}
    /\ LET response == ProtectedGet(c.bearer, outcome, stored, <<>>)
           loadedNotes == getAllNotesFromMongo(response)
       IN /\ notes' = IF loadedNotes.threw THEN notes ELSE loadedNotes.value
          /\ lastRepo' = [op |-> c.op, status |-> response.status,
                          threw |-> loadedNotes.threw,
                          empty |-> ~loadedNotes.threw /\ loadedNotes.value = <<>>]
    /\ UNCHANGED <<storedToken, authState, verifying, settingsVars, detailVars>>
    /\ UNCHANGED <<searchVars, pipeVars, chatVars>>
    /\ UNCHANGED <<recorder, storeVars>>

\* loadChatSessions from the return of getAllChatSessions and
\* getLatestChatSession
ChatSessionsReturn(c, outcome, stored) ==
    /\ c \in repo
    /\ c.op = "chat-sessions"
    /\ repo' = repo \ {c}
    /\ LET response == ProtectedGet(c.bearer, outcome, stored, <<>>)
           latest == ProtectedGet(c.bearer, outcome,
                                  IF stored = <<>> THEN NoSession ELSE stored[1],
                                  NoSession)
           allSessions == getAllChatSessions(response)
       IN /\ loadChatSessions(allSessions.value, getLatestChatSession(latest).value)
          /\ lastRepo' = [op |-> c.op, status |-> response.status,
                          threw |-> allSessions.threw,
                          empty |-> ~allSessions.threw /\ allSessions.value = <<>>]
    /\ UNCHANGED <<storedToken, authState, verifying, settingsVars, detailVars>>
    /\ UNCHANGED <<notes, searchVars, pipeVars>>
    /\ UNCHANGED <<recorder, storeVars>>

AuthNext ==
    \/ \E outcome \in ServerOutcomes : VerifyReturns(outcome)
    \/ handleLogin
    \/ handleLogout
    \/ LogoutElsewhere
    \/ TokenExpires
    \/ ReloadNotes
    \/ OpenChat
    \/ \E c \in repo, outcome \in ServerOutcomes, stored \in {<<>>, <<LoadedNote>>} :
          NotesReturn(c, outcome, stored)
    \/ \E c \in repo, outcome \in ServerOutcomes, stored \in StoredSessionLists :
          ChatSessionsReturn(c, outcome, stored)

----------------------------------------------------------------------------
(* The note page: components/NoteDetail.tsx                                *)

\* What POST /api/notes/:id/regenerate answers in data.note
RegeneratedNotes ==
    {[transcript |-> Text("transcript", 17), summary |-> Text("summary", 7),
      title |-> Text("title", 5), tags |-> DefaultTagsEn],
     [transcript |-> Text("transcript", 60), summary |-> Text("summary", 7),
      title |-> Text("loaded", 6), tags |-> <<>>]}

\* What GET /api/notes/:id answers in data.note for the note n
FullNotes(n) == {[n EXCEPT !.transcript = t] : t \in Transcripts}

DetailInitPart ==
    /\ activeNote = NoNote
    /\ currentNote = NoNote
    /\ audioBlob = FALSE
    /\ isLoadingAudio = FALSE
    /\ showRegenerateConfirm = FALSE
    /\ isRegenerating = FALSE
    /\ toast = "none"
    /\ deletingNote = FALSE

\* handleNoteSelect, and the mount of NoteDetail with its effect on note.id.
\* The notes of the list carry audioBlob: null.
handleNoteSelect(i) ==
    /\ view = "dashboard"
    /\ i \in 1..Len(notes)
    /\ activeNote' = notes[i]
    /\ view' = "detail"
    /\ currentNote' = notes[i]
    /\ audioBlob' = FALSE
    /\ isLoadingAudio' = TRUE
    /\ showRegenerateConfirm' = FALSE
    /\ isRegenerating' = FALSE
    /\ toast' = "none"
    /\ UNCHANGED <<deletingNote, llmConfig, localConfig, localLanguage, authVars>>
    /\ UNCHANGED <<notes, searchVars, pipeVars, chatVars>>
    /\ UNCHANGED <<recorder, storeVars>>

\* The effect on note.id from the return of getNoteWithAudio, which answers
\* null when its request fails
NoteFetched(fullNote, hasAudioData) ==
    /\ view = "detail"
    /\ isLoadingAudio
    /\ isLoadingAudio' = FALSE
    /\ IF fullNote = NoNote
       THEN UNCHANGED <<currentNote, audioBlob>>
       ELSE /\ audioBlob' = (hasAudioData \/ audioBlob)
            /\ currentNote' =
                  [currentNote EXCEPT
                      !.transcript = OrElse(fullNote.transcript, currentNote.transcript),
                      !.summary = OrElse(fullNote.summary, currentNote.summary)]
    /\ UNCHANGED <<activeNote, showRegenerateConfirm, isRegenerating, toast, deletingNote,
                   settingsVars, authVars>>
    /\ UNCHANGED <<notes, searchVars, pipeVars, chatVars>>
    /\ UNCHANGED <<recorder, storeVars>>

\* handleRegenerate, behind a button that is disabled while isRegenerating
\* or without audio
handleRegenerate ==
    /\ view = "detail"
    /\ ~isRegenerating
    /\ audioBlob
    /\ ~showRegenerateConfirm
    /\ showRegenerateConfirm' = TRUE
    /\ UNCHANGED <<activeNote, currentNote, audioBlob, isLoadingAudio, isRegenerating,
                   toast, deletingNote, settingsVars, authVars>>
    /\ UNCHANGED <<notes, searchVars, pipeVars, chatVars>>
    /\ UNCHANGED <<recorder, storeVars>>

\* The Cancel button of the confirmation dialog
CancelRegenerate ==
    /\ view = "detail"
    /\ showRegenerateConfirm
    /\ showRegenerateConfirm' = FALSE
    /\ UNCHANGED <<activeNote, currentNote, audioBlob, isLoadingAudio, isRegenerating,
                   toast, deletingNote, settingsVars, authVars>>
    /\ UNCHANGED <<notes, searchVars, pipeVars, chatVars>>
    /\ UNCHANGED <<recorder, storeVars>>

\* confirmRegenerate up to await regenerateNote(note.id, llmConfig)
confirmRegenerate ==
    /\ view = "detail"
    /\ showRegenerateConfirm
    /\ showRegenerateConfirm' = FALSE
    /\ isRegenerating' = TRUE
    /\ UNCHANGED <<activeNote, currentNote, audioBlob, isLoadingAudio, toast, deletingNote,
                   settingsVars, authVars>>
    /\ UNCHANGED <<notes, searchVars, pipeVars, chatVars>>
    /\ UNCHANGED <<recorder, storeVars>>

\* regenerateNote: the object it returns from data.note
regenerateNote(data) ==
    [transcript |-> data.transcript, summary |-> data.summary,
     title |-> data.title, tags |-> data.tags]

\* updatedNote.audioBlob = audioBlob
withAudioBlob(updatedNote, blob) ==
    [f \in DOMAIN updatedNote \cup {"audioBlob"} |->
        IF f = "audioBlob" THEN blob ELSE updatedNote[f]]

\* confirmRegenerate from the return of regenerateNote, which throws when
\* its request fails
RegenerateReturns(outcome, data) ==
    /\ view = "detail"
    /\ isRegenerating
    /\ isRegenerating' = FALSE
    /\ IF outcome = "ok"
       THEN /\ currentNote' = withAudioBlob(regenerateNote(data), audioBlob)
            /\ toast' = "success"
       ELSE /\ toast' = "error"
            /\ UNCHANGED currentNote
    /\ UNCHANGED <<activeNote, audioBlob, isLoadingAudio, showRegenerateConfirm,
                   deletingNote, settingsVars, authVars>>
    /\ UNCHANGED <<notes, searchVars, pipeVars, chatVars>>
    /\ UNCHANGED <<recorder, storeVars>>

\* The timer of the effect on toast
ToastExpires ==
    /\ view = "detail"
    /\ toast # "none"
    /\ toast' = "none"
    /\ UNCHANGED <<activeNote, currentNote, audioBlob, isLoadingAudio,
                   showRegenerateConfirm, isRegenerating, deletingNote,
                   settingsVars, authVars>>
    /\ UNCHANGED <<notes, searchVars, pipeVars, chatVars>>
    /\ UNCHANGED <<recorder, storeVars>>

\* handleDelete, confirmed, up to await deleteNoteFromMongo(note.id)
handleDelete ==
    /\ view = "detail"
    /\ ~isRegenerating
    /\ ~deletingNote
    /\ deletingNote' = TRUE
    /\ UNCHANGED <<activeNote, currentNote, audioBlob, isLoadingAudio,
                   showRegenerateConfirm, isRegenerating, toast, settingsVars, authVars>>
    /\ UNCHANGED <<notes, searchVars, pipeVars, chatVars>>
    /\ UNCHANGED <<recorder, storeVars>>

\* handleDelete from the return of deleteNoteFromMongo, whose answer it does
\* not read: onDelete(), which is reloadNotes up to its request, and onBack()
DeleteNoteReturns ==
    /\ deletingNote
    /\ deletingNote' = FALSE
    /\ repo' = repo \cup {[op |-> "notes", bearer |-> storedToken]}
    /\ activeNote' = NoNote
    /\ view' = "dashboard"
    /\ UNCHANGED <<currentNote, audioBlob, isLoadingAudio, showRegenerateConfirm,
                   isRegenerating, toast>>
    /\ UNCHANGED <<llmConfig, localConfig, localLanguage,
                   storedToken, authState, verifying, lastRepo>>
    /\ UNCHANGED <<notes, searchVars, pipeVars, chatVars>>
    /\ UNCHANGED <<recorder, storeVars>>

\* onBack of NoteDetail; the overlay covers the page while isRegenerating
DetailBack ==
    /\ view = "detail"
    /\ ~isRegenerating
    /\ activeNote' = NoNote
    /\ view' = "dashboard"
    /\ isLoadingAudio' = FALSE
    /\ UNCHANGED <<currentNote, audioBlob, showRegenerateConfirm, isRegenerating, toast,
                   deletingNote, llmConfig, localConfig, localLanguage, authVars>>
    /\ UNCHANGED <<notes, searchVars, pipeVars, chatVars>>
    /\ UNCHANGED <<recorder, storeVars>>

DetailNext ==
    \/ \E i \in 1..2 : handleNoteSelect(i)
    \/ \E fullNote \in {NoNote} \cup FullNotes(activeNote), hasAudioData \in BOOLEAN :
          NoteFetched(fullNote, hasAudioData)
    \/ handleRegenerate
    \/ CancelRegenerate
    \/ confirmRegenerate
    \/ \E outcome \in RequestOutcomes, data \in RegeneratedNotes :
          RegenerateReturns(outcome, data)
    \/ ToastExpires
    \/ handleDelete
    \/ DeleteNoteReturns
    \/ DetailBack
    \/ \E c \in repo, outcome \in ServerOutcomes, stored \in {<<>>, <<LoadedNote>>} :
          NotesReturn(c, outcome, stored)

----------------------------------------------------------------------------
(* The recorder: components/Recorder.tsx                                   *)

\* The seconds the interval of one recording counts.
MaxSeconds == 2

\* state: "none" (no Recorder), "starting" (getUserMedia pending),
\* "recording", "stopping" (stop() called, the stop event not yet
\* dispatched).  cancelled: Cancel was pressed on this recording.
NoRecorder == [state |-> "none", durationRef |-> 0, cancelled |-> FALSE]

\* The record button of the dashboard: the Recorder is mounted and its
\* effect calls startRecording, up to await getUserMedia
StartRecording ==
    /\ view = "dashboard"
    /\ ~processingState
    /\ recorder.state = "none"
    /\ view' = "recording"
    /\ recorder' = [NoRecorder EXCEPT !.state = "starting"]
    /\ UNCHANGED <<llmConfig, localConfig, localLanguage, authVars, detailVars, storeVars>>
    /\ UNCHANGED <<notes, searchVars, pipeVars, chatVars>>

\* startRecording from the return of getUserMedia: mediaRecorder.start(),
\* or onCancel() in the catch
MicrophoneReturns(granted) ==
    /\ recorder.state = "starting"
    /\ IF granted
       THEN /\ recorder' = [recorder EXCEPT !.state = "recording"]
            /\ UNCHANGED view
       ELSE /\ recorder' = NoRecorder
            /\ view' = "dashboard"
    /\ UNCHANGED <<llmConfig, localConfig, localLanguage, authVars, detailVars, storeVars>>
    /\ UNCHANGED <<notes, searchVars, pipeVars, chatVars>>

\* The interval of startRecording, cleared by stopResources
Tick ==
    /\ view = "recording"
    /\ recorder.state = "recording"
    /\ recorder.durationRef < MaxSeconds
    /\ recorder' = [recorder EXCEPT !.durationRef = @ + 1]
    /\ UNCHANGED <<settingsVars, authVars, detailVars, storeVars>>
    /\ UNCHANGED <<notes, searchVars, pipeVars, chatVars>>

\* stopRecording, the Stop button
stopRecording ==
    /\ view = "recording"
    /\ recorder.state = "recording"
    /\ recorder' = [recorder EXCEPT !.state = "stopping"]
    /\ UNCHANGED <<settingsVars, authVars, detailVars, storeVars>>
    /\ UNCHANGED <<notes, searchVars, pipeVars, chatVars>>

\* stopResources: mediaRecorder.stop() while it records; durationRef = 0
stopResources(r) ==
    [r EXCEPT !.state = IF r.state = "recording" THEN "stopping" ELSE r.state,
              !.durationRef = 0]

\* The Cancel button: onCancel() leaves the page, and the cleanup of the
\* effect of the Recorder runs stopResources
CancelRecording ==
    /\ view = "recording"
    /\ view' = "dashboard"
    /\ recorder' = [stopResources(recorder) EXCEPT
                       !.cancelled = (recorder.state = "recording")]
    /\ UNCHANGED <<llmConfig, localConfig, localLanguage, authVars, detailVars, storeVars>>
    /\ UNCHANGED <<notes, searchVars, pipeVars, chatVars>>

\* mediaRecorder.onstop: onRecordingComplete(blob, durationRef.current),
\* which is handleRecordingComplete: setView(DASHBOARD), so that the
\* Recorder, when still mounted, is unmounted
RecorderStopped(size, spoken) ==
    /\ recorder.state = "stopping"
    /\ handleRecordingComplete(size, 100 * recorder.durationRef, chatLanguage,
                               llmConfig.provider, spoken)
    /\ view' = "dashboard"
    /\ recorder' = NoRecorder
    /\ UNCHANGED <<llmConfig, localConfig, localLanguage, authVars, detailVars, storeVars>>

RecorderNext ==
    \/ StartRecording
    \/ \E granted \in BOOLEAN : MicrophoneReturns(granted)
    \/ Tick
    \/ stopRecording
    \/ CancelRecording
    \/ \E size \in BlobSizes, spoken \in Languages : RecorderStopped(size, spoken)
    \/ \E outcome \in RequestOutcomes, transcript \in Transcripts :
          TranscribeReturns(outcome, transcript)
    \/ OrchestrateHandler
    \/ LlamaReturns
    \/ DirectReturns
    \/ \E outcome \in RequestOutcomes : OrchestrateReturns(outcome)
    \/ \E outcome \in RequestOutcomes : EmbedReturns(outcome)
    \/ \E outcome \in RequestOutcomes : PersistReturns(outcome)

----------------------------------------------------------------------------
(* The notes and chat sessions of the server's database                    *)

UserIds == {"A", "B"}
BearerTokens == {"none", "expired", "tokenA", "tokenB"}
DocIds == {"d1", "d2"}
StoreOutcomes == {"ok", "db_down"}
MaxServerClock == 2

\* A document is [id, userId, updatedAt]: _id, the owner the handler adds
\* and the updatedAt the handler adds; the other fields of a note or of a
\* session are not inspected by any handler and are left out.  Only the
\* chat sessions are read by updatedAt, so that of a note is left at 0.
NoResponse == [op |-> "none", userId |-> "nobody", id |-> "", status |-> 0,
               body |-> {}, error |-> "none"]

StoreInitPart ==
    /\ notesCollection = {}
    /\ chatSessionsCollection = {}
    /\ serverNow = 0
    /\ res = NoResponse

\* jwt.verify of a token the server signed: the payload, which is req.user
jwtVerify(token) == [userId |-> IF token = "tokenA" THEN "A" ELSE "B"]

\* collection.find({ userId })
find(collection, userId) == {d \in collection : d.userId = userId}

\* collection.findOne({ _id: id, userId }): the set of the matches
findOne(collection, id, userId) ==
    {d \in collection : d.id = id /\ d.userId = userId}

\* collection.findOne({ userId }, { sort: { updatedAt: -1 } })
findLatest(collection, userId) ==
    {d \in find(collection, userId) :
        \A e \in find(collection, userId) : e.updatedAt <= d.updatedAt}

\* replaceOne with the filter { _id: id } alone, whoever owns the document
replaceOneById(collection, id, userId, document) ==
    [threw |-> FALSE,
     collection |-> {d \in collection : d.id # id} \cup {document}]

\* collection.replaceOne({ _id: id, userId }, document, { upsert: true }):
\* the matching document is replaced; without a match the document is
\* inserted, which the unique index on _id refuses (duplicate key) when
\* a document of another owner has the id
replaceOne(collection, id, userId, document) ==
    IF findOne(collection, id, userId) # {}
    THEN [threw |-> FALSE,
          collection |-> (collection \ findOne(collection, id, userId)) \cup {document}]
    ELSE IF \E d \in collection : d.id = id
         THEN [threw |-> TRUE, collection |-> collection]
         ELSE [threw |-> FALSE, collection |-> collection \cup {document}]

\* collection.deleteOne({ _id: id, userId })
deleteOne(collection, id, userId) ==
    [deletedCount |-> Cardinality(findOne(collection, id, userId)),
     collection |-> collection \ findOne(collection, id, userId)]

\* What every handler does first: authenticateToken, then 503 without
\* the collection
Refused(token, outcome) == authenticateToken(token) # 0 \/ outcome # "ok"

refusal(op, token, id, outcome) ==
    IF authenticateToken(token) # 0
    THEN [NoResponse EXCEPT !.op = op, !.id = id,
                            !.status = authenticateToken(token)]
    ELSE [NoResponse EXCEPT !.op = op, !.id = id,
                            !.userId = jwtVerify(token).userId,
                            !.status = 503, !.error = "not connected"]

answer(op, token, id, status, body) ==
    [NoResponse EXCEPT !.op = op, !.id = id, !.userId = jwtVerify(token).userId,
                       !.status = status, !.body = body]

StoreOthersUnchanged ==
    UNCHANGED <<notes, searchVars, pipeVars, chatVars, settingsVars, authVars,
                detailVars, recorder>>

\* POST /api/notes
PostNote(token, id, outcome) ==
    /\ IF Refused(token, outcome)
       THEN /\ res' = refusal("POST /api/notes", token, id, outcome)
            /\ UNCHANGED notesCollection
       ELSE LET userId == jwtVerify(token).userId
                document == [id |-> id, userId |-> userId, updatedAt |-> 0]
                result == replaceOne(notesCollection, id, userId, document)
            IN  /\ notesCollection' = result.collection
                /\ res' =
                      IF result.threw
                      THEN [answer("POST /api/notes", token, id, 500, {})
                               EXCEPT !.error = "duplicate key"]
                      ELSE answer("POST /api/notes", token, id, 200, {})
    /\ UNCHANGED <<chatSessionsCollection, serverNow>>
    /\ StoreOthersUnchanged

\* POST /api/notes/search: $vectorSearch with filter { userId } returns
\* some of the documents that pass the filter
SearchNotes(token, hits, outcome) ==
    /\ res' =
          IF Refused(token, outcome)
          THEN refusal("POST /api/notes/search", token, "", outcome)
          ELSE answer("POST /api/notes/search", token, "", 200,
                      hits \cap find(notesCollection, jwtVerify(token).userId))
    /\ UNCHANGED <<notesCollection, chatSessionsCollection, serverNow>>
    /\ StoreOthersUnchanged

\* GET /api/notes
GetNotes(token, outcome) ==
    /\ res' =
          IF Refused(token, outcome)
          THEN refusal("GET /api/notes", token, "", outcome)
          ELSE answer("GET /api/notes", token, "", 200,
                      find(notesCollection, jwtVerify(token).userId))
    /\ UNCHANGED <<notesCollection, chatSessionsCollection, serverNow>>
    /\ StoreOthersUnchanged

\* DELETE /api/notes/:id
DeleteNote(token, id, outcome) ==
    /\ IF Refused(token, outcome)
       THEN /\ res' = refusal("DELETE /api/notes/:id", token, id, outcome)
            /\ UNCHANGED notesCollection
       ELSE LET result == deleteOne(notesCollection, id, jwtVerify(token).userId)
            IN  /\ notesCollection' = result.collection
                /\ res' = answer("DELETE /api/notes/:id", token, id,
                                      IF result.deletedCount = 0 THEN 404 ELSE 200, {})
    /\ UNCHANGED <<chatSessionsCollection, serverNow>>
    /\ StoreOthersUnchanged

\* GET /api/chat-sessions
GetChatSessions(token, outcome) ==
    /\ res' =
          IF Refused(token, outcome)
          THEN refusal("GET /api/chat-sessions", token, "", outcome)
          ELSE answer("GET /api/chat-sessions", token, "", 200,
                      find(chatSessionsCollection, jwtVerify(token).userId))
    /\ UNCHANGED <<notesCollection, chatSessionsCollection, serverNow>>
    /\ StoreOthersUnchanged

\* GET /api/chat-sessions/latest
GetLatestChatSession(token, outcome) ==
    /\ res' =
          IF Refused(token, outcome)
          THEN refusal("GET /api/chat-sessions/latest", token, "", outcome)
          ELSE answer("GET /api/chat-sessions/latest", token, "", 200,
                      findLatest(chatSessionsCollection, jwtVerify(token).userId))
    /\ UNCHANGED <<notesCollection, chatSessionsCollection, serverNow>>
    /\ StoreOthersUnchanged

\* GET /api/chat-sessions/:id
GetChatSession(token, id, outcome) ==
    /\ res' =
          IF Refused(token, outcome)
          THEN refusal("GET /api/chat-sessions/:id", token, id, outcome)
          ELSE LET session == findOne(chatSessionsCollection, id,
                                      jwtVerify(token).userId)
               IN  answer("GET /api/chat-sessions/:id", token, id,
                          IF session = {} THEN 404 ELSE 200, session)
    /\ UNCHANGED <<notesCollection, chatSessionsCollection, serverNow>>
    /\ StoreOthersUnchanged

\* POST /api/chat-sessions
PostChatSession(token, id, outcome) ==
    /\ serverNow < MaxServerClock
    /\ IF Refused(token, outcome)
       THEN /\ res' = refusal("POST /api/chat-sessions", token, id, outcome)
            /\ UNCHANGED <<chatSessionsCollection, serverNow>>
       ELSE LET userId == jwtVerify(token).userId
                document == [id |-> id, userId |-> userId,
                             updatedAt |-> serverNow + 1]
                result == replaceOne(chatSessionsCollection, id, userId, document)
            IN  /\ serverNow' = serverNow + 1
                /\ chatSessionsCollection' = result.collection
                /\ res' =
                      IF result.threw
                      THEN [answer("POST /api/chat-sessions", token, id, 500, {})
                               EXCEPT !.error = "duplicate key"]
                      ELSE answer("POST /api/chat-sessions", token, id, 200, {})
    /\ UNCHANGED notesCollection
    /\ StoreOthersUnchanged

\* DELETE /api/chat-sessions/:id
DeleteChatSession(token, id, outcome) ==
    /\ IF Refused(token, outcome)
       THEN /\ res' = refusal("DELETE /api/chat-sessions/:id", token, id, outcome)
            /\ UNCHANGED chatSessionsCollection
       ELSE LET result == deleteOne(chatSessionsCollection, id,
                                    jwtVerify(token).userId)
            IN  /\ chatSessionsCollection' = result.collection
                /\ res' = answer("DELETE /api/chat-sessions/:id", token, id,
                                      IF result.deletedCount = 0 THEN 404 ELSE 200, {})
    /\ UNCHANGED <<notesCollection, serverNow>>
    /\ StoreOthersUnchanged

StoreNext ==
    \/ \E token \in BearerTokens, id \in DocIds, outcome \in StoreOutcomes :
          PostNote(token, id, outcome)
    \/ \E token \in BearerTokens, hits \in SUBSET notesCollection,
          outcome \in StoreOutcomes : SearchNotes(token, hits, outcome)
    \/ \E token \in BearerTokens, outcome \in StoreOutcomes : GetNotes(token, outcome)
    \/ \E token \in BearerTokens, id \in DocIds, outcome \in StoreOutcomes :
          DeleteNote(token, id, outcome)
    \/ \E token \in BearerTokens, outcome \in StoreOutcomes :
          GetChatSessions(token, outcome)
    \/ \E token \in BearerTokens, outcome \in StoreOutcomes :
          GetLatestChatSession(token, outcome)
    \/ \E token \in BearerTokens, id \in DocIds, outcome \in StoreOutcomes :
          GetChatSession(token, id, outcome)
    \/ \E token \in BearerTokens, id \in DocIds, outcome \in StoreOutcomes :
          PostChatSession(token, id, outcome)
    \/ \E token \in BearerTokens, id \in DocIds, outcome \in StoreOutcomes :
          DeleteChatSession(token, id, outcome)

----------------------------------------------------------------------------
(* Specifications                                                          *)

ChatQuiet == ChatInitPart /\ chatLanguage = "en"

SearchQuiet ==
    /\ SearchInitPart

ShellQuiet == SettingsInitPart /\ DetailInitPart /\ recorder = NoRecorder /\ StoreInitPart /\ storedToken = "valid" /\ verifying = FALSE
              /\ authState = [isAuthenticated |-> TRUE, token |-> "valid"]
              /\ repo = {} /\ lastRepo = NoRead

PipeQuiet ==
    /\ pc = "idle"
    /\ processingState = FALSE
    /\ attempt = NoAttempt
    /\ srv = SrvIdle
    /\ env = [assemblyKey |-> TRUE, clientLlamaKey |-> TRUE,
              serverLlamaKey |-> TRUE, providerKeys |-> Providers]

\* The search box over a loaded note list.
SearchInit == notes \in NoteLists /\ SearchInitPart /\ PipeQuiet /\ ChatQuiet /\ ShellQuiet
SearchSpec == SearchInit /\ [][SearchNext]_vars

\* Recordings turned into notes, one after the other.
PipeInit == notes \in {<<>>, <<LoadedNote>>} /\ SearchQuiet /\ PipeInitPart /\ ChatQuiet
            /\ ShellQuiet
PipeSpec == PipeInit /\ [][PipeNext]_vars

\* The analysis of the server, for the requests any client can make.
AnalyzeNext ==
    \/ \E transcript \in Transcripts, provider \in Providers, language \in Languages :
          OrchestrateRequest(transcript, provider, language)
    \/ OrchestrateHandler
    \/ LlamaReturns
    \/ DirectReturns
AnalyzeInit == notes = <<>> /\ SearchQuiet /\ PipeInitPart /\ ChatQuiet /\ ShellQuiet
AnalyzeSpec == AnalyzeInit /\ [][AnalyzeNext]_vars

\* The chat page from its mount on.
ChatInit == notes = <<>> /\ SearchQuiet /\ PipeQuiet /\ ChatInitPart /\ ShellQuiet
ChatSpec == ChatInit /\ [][ChatNext]_vars

\* The settings page over the configuration the App starts with.
SettingsInit == notes = <<>> /\ SearchQuiet /\ PipeQuiet /\ ChatQuiet /\ ShellQuiet
SettingsSpec == SettingsInit /\ [][SettingsNext]_vars

\* Recordings made with the Recorder and turned into notes.
RecorderInit ==
    /\ notes = <<>> /\ SearchQuiet /\ PipeQuiet /\ ChatQuiet /\ ShellQuiet
RecorderSpec == RecorderInit /\ [][RecorderNext]_vars

\* The note page over a loaded note list.
DetailInit ==
    /\ notes \in {<<LoadedNote>>, <<LoadedNote, [LoadedNote EXCEPT !.id = "t1"]>>}
    /\ SearchQuiet /\ PipeQuiet /\ ChatQuiet /\ ShellQuiet
DetailSpec == DetailInit /\ [][DetailNext]_vars

\* Log in, log out and the reads of the notes and of the chat sessions.
AuthInit ==
    /\ notes = <<>> /\ SearchQuiet /\ PipeQuiet /\ ChatQuiet /\ SettingsInitPart
    /\ DetailInitPart /\ recorder = NoRecorder /\ StoreInitPart
    /\ AuthInitPart
AuthSpec == AuthInit /\ [][AuthNext]_vars

\* Requests of two users to the notes and chat-sessions endpoints.
StoreInit ==
    /\ notes = <<>> /\ SearchQuiet /\ PipeQuiet /\ ChatQuiet /\ ShellQuiet
StoreSpec == StoreInit /\ [][StoreNext]_vars

\* The chat page when every request it awaits is answered or fails: the
\* continuations of handleSendMessage are eventually run.
ChatLiveSpec ==
    /\ ChatInit
    /\ [][ChatNext]_vars
    /\ WF_vars(\E s \in sends : ContextReturns(s))
    /\ WF_vars(\E s \in sends, outcome \in RequestOutcomes, response \in ChatResponses :
                  ChatReturns(s, outcome, response))


----------------------------------------------------------------------------
(* Properties of the hybrid search                                         *)

IdsOf(ns) == {ns[i].id : i \in 1..Len(ns)}
EntriesFor(ns, id) == {i \in 1..Len(ns) : ns[i].id = id}

\* C1 as stated: for a non-empty query, a note that is both among the local
\* matches and among the stored remote results appears exactly once in the
\* displayed list, and the entry shown is the remote record, with its
\* vectorScore.
C1_RemoteRecordShown ==
    searchQuery # <<>> =>
        \A i \in 1..Len(searchResults) :
            searchResults[i].id \in IdsOf(localFiltered) =>
                /\ Cardinality(EntriesFor(displayedNotes, searchResults[i].id)) = 1
                /\ \A k \in EntriesFor(displayedNotes, searchResults[i].id) :
                       displayedNotes[k] = searchResults[i]

\* C3 as stated: when a search returns whose query is no longer the trimmed
\* text of the search box, its result is discarded: the stored remote
\* results stay as they were.
C3_StaleResultDiscarded ==
    [][\A c \in inflight :
          (c \notin inflight' /\ c.q # trim(searchQuery)) => searchResults' = searchResults]_vars

C13_LocalMatchesDisplayed ==
    searchQuery # <<>> =>
        \A i \in 1..Len(notes) :
            MatchesQuery(notes[i], searchQuery) => notes[i].id \in IdsOf(displayedNotes)

\* The request for the current query failed, and the local matches are shown.
C13_Witness ==
    /\ searchQuery # <<>>
    /\ lastSearch.outcome \in {"http_error", "network_error"}
    /\ lastSearch.q = trim(searchQuery)
    /\ inflight = {}
    /\ timeout = {}
    /\ localFiltered # <<>>
    /\ displayedNotes = localFiltered

\* C14 as stated: when the request for the current query has failed and no
\* other is pending, searchError is a message.
C14_FailedSearchSetsError ==
    (/\ lastSearch.outcome \in {"http_error", "network_error"}
     /\ lastSearch.q = trim(searchQuery)
     /\ searchQuery # <<>>
     /\ inflight = {}
     /\ timeout = {}) => searchError # "null"

----------------------------------------------------------------------------
(* Properties of the note-creation pipeline                                *)

Requests == {"transcribe", "orchestrate", "embed", "persist"}

RequestsIn(log) == {i \in 1..Len(log) : log[i] \in Requests}

IsPrefix(p, q) == Len(p) <= Len(q) /\ SubSeq(q, 1, Len(p)) = p

FullLog == <<"validated", "transcribe", "transcribed", "orchestrate", "analyzed",
             "embed", "embedded", "persist", "persist returned", "note added">>

\* C2: an attempt whose audio is empty or shorter than 0.1 s is rejected
\* with a validation error before any request: no transcribe, orchestrate,
\* embed or persist request is issued, the server's analysis is not started,
\* and the note list is what it was.
C2_InvalidAudioRejectedBeforeAnyRequest ==
    (attempt.no > 0 /\ (attempt.size = 0 \/ attempt.duration < MinDurationCs)) =>
        /\ attempt.outcome = "failed"
        /\ attempt.failedAt = "validate"
        /\ attempt.alert \in {"Audio blob is empty", "Recording is too short"}
        /\ RequestsIn(attempt.log) = {}
        /\ srv = SrvIdle
        /\ pc = "idle"
        /\ notes = attempt.notesAtStart

C2_Witness ==
    /\ attempt.size > 0
    /\ attempt.duration < MinDurationCs
    /\ attempt.outcome = "failed"

\* C4: the events of an attempt occur in the order validate, transcribe,
\* analyze, embed, persist, each request after the success of the stage
\* before it and none skipped; the server analyses only while the client
\* awaits its orchestrate request; and the note list changes only after the
\* persist call has returned.
C4_StagesInOrder ==
    /\ IsPrefix(attempt.log, FullLog)
    /\ attempt.no = 0 => attempt.log = <<>>
    /\ pc = "transcribing" => attempt.log = SubSeq(FullLog, 1, 2)
    /\ pc = "orchestrating" => attempt.log = SubSeq(FullLog, 1, 4)
    /\ pc = "embedding" => attempt.log = SubSeq(FullLog, 1, 6)
    /\ pc = "persisting" => attempt.log = SubSeq(FullLog, 1, 8)
    /\ srv # SrvIdle => pc = "orchestrating"
    /\ (attempt.no > 0 /\ notes # attempt.notesAtStart) =>
           /\ attempt.log = FullLog
           /\ notes = <<attempt.note>> \o attempt.notesAtStart

C4_Witness ==
    /\ attempt.outcome = "created"
    /\ attempt.log = FullLog
    /\ notes # attempt.notesAtStart

StagesAfter(stage) ==
    CASE stage = "transcribe" -> {"orchestrate", "embed", "persist"}
      [] stage = "analyze"    -> {"embed", "persist"}
      [] stage = "embed"      -> {"persist"}
      [] OTHER                -> {}

\* C5: when transcription, analysis or embedding fails, the attempt ends
\* there: no request of a later stage is made, so no persist request, the
\* note list is what it was, and the user is shown an alert.
C5_FailureHaltsPipeline ==
    attempt.failedAt \in {"transcribe", "analyze", "embed"} =>
        /\ attempt.outcome = "failed"
        /\ pc = "idle"
        /\ ~processingState
        /\ \A i \in 1..Len(attempt.log) : attempt.log[i] \notin StagesAfter(attempt.failedAt)
        /\ notes = attempt.notesAtStart
        /\ attempt.alert # ""

C5_Witness ==
    /\ attempt.failedAt = "embed"
    /\ attempt.alert = "Embedding generation failed"
    /\ attempt.log = SubSeq(FullLog, 1, 6)

\* C9: when the write of the note fails, by a status that is not ok or by a
\* thrown network error, no failure is raised and the note is the first of
\* the note list, before the notes that were there.
C9_PersistFailureKeepsNote ==
    attempt.persisted \in {"http_error", "network_error"} =>
        /\ attempt.outcome = "created"
        /\ attempt.alert = ""
        /\ notes = <<attempt.note>> \o attempt.notesAtStart

C9_Witness ==
    /\ attempt.persisted = "network_error"
    /\ attempt.outcome = "created"
    /\ Len(notes) = Len(attempt.notesAtStart) + 1

----------------------------------------------------------------------------
(* Properties of the server's analysis                                     *)

DirectCalls(s) == {i \in 1..Len(s.calls) : s.calls[i].to = "direct"}

\* C6 as stated: in a request in which the orchestration layer is configured
\* and answers with a status that is not ok, orchestrateWithDirectLLM is
\* invoked exactly once, after the orchestration call, whatever the direct
\* call's outcome.
C6_DirectInvokedOnce ==
    (srv.pc = "replied" /\ srv.llama = "http_error") =>
        /\ Cardinality(DirectCalls(srv)) = 1
        /\ srv.calls[1].to = "llama"

\* C7 as stated: the analysis stage of an attempt never fails because the
\* credential of the orchestration layer is not configured.
C7_MissingCredentialNotFatal ==
    attempt.failedAt = "analyze" =>
        attempt.alert # "Missing LlamaIndex (LlamaCloud) API key"

\* C8 as stated: a result built from a reply whose content is not empty and
\* is not JSON is returned with status 200, its tags are the default tags of
\* the language the analysis was requested in, and its summary is not empty.
C8_DegradedResultHasDefaultTags ==
    (srv.pc = "replied" /\ srv.path # "none" /\ ~IsValidJson(srv.content)) =>
        /\ srv.response.ok
        /\ srv.response.result.tags = DefaultTags(srv.req.language)
        /\ Truthy(srv.response.result.summary)

\* C23 as stated: a result built from a reply that is not JSON carries the
\* generic title of the language the analysis was requested in, on both
\* paths and for every transcript.
C23_DegradedResultHasGenericTitle ==
    (srv.pc = "replied" /\ srv.path # "none" /\ ~IsValidJson(srv.content)) =>
        srv.response.result.title =
            IF srv.req.language = "zh" THEN VoiceRecordingZh ELSE VoiceRecordingEn

\* C25 as stated: every call of the direct provider within a request runs
\* with the language the analysis was requested in.
C25_FallbackKeepsLanguage ==
    \A i \in 1..Len(srv.calls) :
        srv.calls[i].to = "direct" => srv.calls[i].language = srv.req.language

----------------------------------------------------------------------------
(* Properties of the chat page                                             *)

C11_SendReturnsToIdle ==
    /\ (sends # {}) ~> (~isTyping /\ ~retrievingContext)
    /\ [][(settled' # settled /\ settled'.failed) =>
            /\ Len(messages') = Len(messages) + 1
            /\ SubSeq(messages', 1, Len(messages)) = messages
            /\ messages'[Len(messages')].role = "model"
            /\ messages'[Len(messages')].text = SorryError(chatLanguage)]_vars

C11_Witness ==
    /\ settled.failed
    /\ sends = {}
    /\ ~isTyping
    /\ ~retrievingContext
    /\ messages # <<>>
    /\ messages[Len(messages)].text = SorryError(chatLanguage)

\* C15 as stated: when the deletion of the session that is current succeeds,
\* the current session is no longer the deleted one: it is the first of the
\* remaining sessions, or a draft without messages when none remains; and
\* the deleted id is not in the session list.
C15_DeletedSessionNotCurrent ==
    [][\A d \in deletes :
          (d \notin deletes' /\ d.id \in deleted' /\ currentSession.id = d.id) =>
              /\ currentSession'.id # d.id
              /\ d.id \notin IdsOf(sessions')
              /\ IF withoutSession(sessions, d.id) # <<>>
                 THEN currentSession'.id = withoutSession(sessions, d.id)[1].id
                 ELSE currentSession'.messages = <<>> /\ messages' = <<>>]_vars

SortedByUpdatedAt(list) ==
    \A i, j \in 1..Len(list) : i < j => list[i].updatedAt >= list[j].updatedAt

\* C16: a step that saves a session leaves the session list ordered by
\* updatedAt, newest first, with the saved session, which is the current
\* one, as its first element.
C16_SavedSessionFirst ==
    [][saveCalls' # saveCalls =>
          /\ sessions' # <<>>
          /\ sessions'[1] = currentSession'
          /\ SortedByUpdatedAt(sessions')]_vars

\* A session created before another one is again the first of the list,
\* after a save of it that followed the save of the other.
C16_Witness ==
    /\ Len(sessions) >= 2
    /\ sessions[1] = currentSession
    /\ sessions[1].createdAt < sessions[2].createdAt
    /\ sessions[2].updatedAt > 0
    /\ sessions[1].updatedAt > sessions[2].updatedAt

\* C17 as stated: in either UI language, a session that has a message
\* carries the title generated from its first message.
C17_TitleFromFirstMessage ==
    (currentSession # NoSession /\ Len(currentSession.messages) > 0) =>
        currentSession.title = generateTitle(currentSession.messages[1].text)

----------------------------------------------------------------------------
(* Properties of the LLM configuration and of the repository reads         *)

\* C18 as stated: in every state, the initial one included, the model of
\* the configuration of the App is one of the models llmOptions lists for
\* its provider.
C18_ModelBelongsToProvider ==
    llmConfig.model \in ModelsOf(llmConfig.provider)

\* C20 as stated: a read of the notes or of the chat sessions that the
\* server answered with 401, because it carried no bearer token, fails at
\* its caller and is not received as an empty list.
C20_UnauthorizedReachesCaller ==
    lastRepo.status = 401 => (lastRepo.threw /\ ~lastRepo.empty)

\* C19 as stated: the language of the analysis request is the language
\* that was spoken in the recording, whatever the language of the UI.
C19_AnalysisLanguageIsSpeechLanguage ==
    (pc = "orchestrating" /\ srv.pc = "received") =>
        srv.req.language = attempt.spoken

\* C22 as stated: while the query is empty or only whitespace, the
\* displayed list is the in-memory note list, whatever searchResults holds.
C22_BlankQueryShowsAllNotes ==
    trim(searchQuery) = <<>> => displayedNotes = notes

----------------------------------------------------------------------------
(* Properties of the note page                                             *)

\* C21 as stated: a regeneration that succeeds leaves id, createdAt,
\* duration, sourceType and llmProvider of the working copy as they were.
C21_RegenerateKeepsIdentity ==
    [][(isRegenerating /\ ~isRegenerating' /\ toast' = "success") =>
          /\ \A f \in {"id", "createdAt", "duration", "llmProvider"} :
                f \in DOMAIN currentNote' /\ currentNote'[f] = currentNote[f]
          /\ ("sourceType" \in DOMAIN currentNote') = ("sourceType" \in DOMAIN currentNote)
      ]_vars

\* C28 as stated: when the read of the note list that follows a deletion
\* is answered with a failure, the note list in memory stays as it was.
C28_FailedReloadKeepsNotes ==
    [][((\E c \in repo : c \notin repo') /\ lastRepo'.status # 200) =>
          notes' = notes]_vars

\* C30 as stated: while nobody is logged in, the note list in memory does
\* not change: it stays as handleLogout emptied it.
C30_NotesStayEmptyAfterLogout ==
    [][(~authState.isAuthenticated /\ ~authState'.isAuthenticated) =>
          notes' = notes]_vars

----------------------------------------------------------------------------
(* Further properties of the chat page                                     *)

\* C24 as stated: the step that appends the reply, or the error message,
\* of a send appends it to the session in which the send was made: that
\* session is the current one and the one that is saved.
C24_ReplyStaysInItsSession ==
    [][\A s \in sends :
          (s.stage = "generating" /\ s \notin sends') =>
              /\ currentSession'.id = s.session
              /\ sessions'[1].id = s.session
              /\ messages' = sessions'[1].messages]_vars

\* C26 as stated: a step that neither starts nor continues a send or a
\* deletion, such as selecting a session or loading the latest one, issues
\* no save; selecting leaves the session list, with every updatedAt and
\* its order, as it was.
C26_SelectingSavesNothing ==
    [][(sends' = sends /\ deletes' = deletes) =>
          /\ saveCalls' = saveCalls
          /\ isLoading' = isLoading => sessions' = sessions]_vars

----------------------------------------------------------------------------
(* Properties of the recorder                                              *)

\* C27 as stated: a recording on which Cancel was pressed invokes no
\* handleRecordingComplete: no attempt starts, the processing state is not
\* entered and no alert is raised.
C27_CancelStartsNoPipeline ==
    [][recorder.cancelled =>
          /\ attempt' = attempt
          /\ processingState' = processingState]_vars

----------------------------------------------------------------------------
(* Properties of the server's database                                     *)

OwnedBy(collection, userIds) == {d \in collection : d.userId \in userIds}

\* C29 as stated: a notes or chat-sessions request made with the token of
\* one user returns only documents that user owns, and it leaves every
\* document of every other user in both collections as it was, also when
\* it upserts with an id another user already uses.
C29_RequestsStayWithinTheirOwner ==
    /\ [](\A d \in res.body : d.userId = res.userId)
    /\ [][/\ OwnedBy(notesCollection', UserIds \ {res'.userId})
               = OwnedBy(notesCollection, UserIds \ {res'.userId})
          /\ OwnedBy(chatSessionsCollection', UserIds \ {res'.userId})
               = OwnedBy(chatSessionsCollection, UserIds \ {res'.userId})]_vars

\* User A upserted a note with an id that a note of user B uses: the
\* request was refused and the note of B is in the collection.
C29_UpsertWithForeignIdRefused ==
    /\ res.op = "POST /api/notes"
    /\ res.userId = "A"
    /\ res.error = "duplicate key"
    /\ \E d \in notesCollection : d.id = res.id /\ d.userId = "B"

====
